---- MODULE Spec2Model ----
(***************************************************************************)
(* Feedora: the refresh scheduler, the per-source update engine, the       *)
(* retained-items merge and the cache garbage collector, as state          *)
(* machines over the globals of package utils.                             *)
(*                                                                         *)
(* Time is an integer number of seconds.  A link is a small integer, 0 is  *)
(* the empty link "".  A category is "" (unclassified), "A" or "B"; "B" is *)
(* the category the source's blacklist drops.                              *)
(*                                                                         *)
(* Atomicity.  One action is one stretch of a goroutine between two        *)
(* points where another goroutine can observe or change what it uses:      *)
(* the semaphore send, the return of the remote fetch, the return of the   *)
(* classification pipeline, the merge, the publication.  Work on locals    *)
(* (building and sorting the item list) is folded into the step before it. *)
(***************************************************************************)
EXTENDS Integers, Sequences, FiniteSets, Bags, TLC

VARIABLES
    now,              \* wall clock (time.Now()), seconds
    Schedules,        \* globals.RssUrls.Schedules
    Sources,          \* globals.RssUrls.Sources: url -> source configuration
    lastUpdateTimes,  \* url -> time of the last dispatch, NoTime when absent
    NextUpdateTime,   \* globals.NextUpdateTime, NoTime when zero
    sem,              \* number of tokens held in feedUpdateSemaphore
    tasks,            \* bag of running update goroutines (records)
    cleaners,         \* bag of pending per-source cleanup goroutines
    DbMap,            \* url -> published snapshot, NoFeed when absent
    ItemsCache,       \* url -> retained items, NoCache when absent
    ClassifyCache,    \* link -> category (a function on the cached links)
    PostProcessCache, \* set of links that have a post-process entry
    ReadState,        \* link -> read-at time (a function on the read links)
    gc,               \* the full sweep: its position, the links it collected
                      \* and (history) the sources configured when it began
    reload,           \* the configuration reload: its position and attempt
    lastEvent,        \* the handler step that produced this state
    hist,             \* history: what an observer of the run has recorded
    probe,            \* inputs and result of a single pure-function call
    store,            \* the durable store: its classification and
                      \* post-process tables
    dataChanged,      \* the dirty flag of the periodic flush
    saver             \* autoSaveLoop: its position, the entries it has yet to
                      \* write, the locks it holds and the call it is in

vars == << now, Schedules, Sources, lastUpdateTimes, NextUpdateTime, sem, tasks,
           cleaners, DbMap, ItemsCache, ClassifyCache, PostProcessCache,
           ReadState, gc, reload, lastEvent, hist, probe, store,
                 dataChanged, saver >>

(***************************************************************************)
(* Bounds of the model.                                                    *)
(***************************************************************************)
NumSources == 2      \* configured sources (urls 1..NumSources)
NumLinks == 2        \* distinct non-empty article links
MaxDocLen == 2       \* items in a fetched document
MaxLive == 1         \* update goroutines alive at once (engine)
MaxCleaners == 1     \* per-source cleanup goroutines pending at once
MaxPending == 2      \* update goroutines in flight when the scheduler ticks
MaxClock == 70       \* the scheduler's last tick, seconds after the start

Urls == 1..NumSources
Links == 1..NumLinks
NoTime == -1
NoFeed == [none |-> TRUE]
NoCache == << [none |-> TRUE] >>
Placeholder == -2    \* Custom["lastupdate"] = "已加载缓存"

(***************************************************************************)
(* Sequence helpers.                                                       *)
(***************************************************************************)
Range(s) == { s[i] : i \in DOMAIN s }

RECURSIVE SeqsUpTo(_, _)
SeqsUpTo(S, n) ==
    IF n = 0 THEN { << >> }
    ELSE LET shorter == SeqsUpTo(S, n - 1)
         IN  shorter \cup { Append(q, x) : q \in { r \in shorter : Len(r) = n - 1 }, x \in S }

Take(s, n) == IF Len(s) > n THEN SubSeq(s, 1, n) ELSE s

LinksOf(items) == [ i \in DOMAIN items |-> items[i].link ]
TitlesOf(items) == [ i \in DOMAIN items |-> items[i].title ]

RECURSIVE IsSubseq(_, _)
IsSubseq(a, b) ==
    IF a = << >> THEN TRUE
    ELSE IF b = << >> THEN FALSE
    ELSE IF Head(a) = Head(b) THEN IsSubseq(Tail(a), Tail(b))
    ELSE IsSubseq(a, Tail(b))

NoDupLinks(items) ==
    \A i, j \in DOMAIN items : items[i].link = items[j].link => i = j

Min(a, b) == IF a < b THEN a ELSE b
(***************************************************************************)
(* Interval policy: getEffectiveInterval.                                  *)
(*                                                                         *)
(* A string is the sequence of its bytes.  time.Now().Format("15:04:05")   *)
(* is FormatClock, and Go's <, <=, >= on strings is the byte-wise          *)
(* lexicographic order StrLess / StrLeq.                                   *)
(***************************************************************************)
DaySeconds == 86400
Colon == 58          \* ':'
Digit(d) == 48 + d   \* '0' + d

TwoDigits(n) == << Digit(n \div 10), Digit(n % 10) >>

\* The local time of day of instant t, as "HH:MM:SS".
FormatClock(t) ==
    LET d == t % DaySeconds
    IN  TwoDigits(d \div 3600) \o << Colon >> \o TwoDigits((d % 3600) \div 60)
            \o << Colon >> \o TwoDigits(d % 60)

RECURSIVE StrLess(_, _)
StrLess(a, b) ==
    IF b = << >> THEN FALSE
    ELSE IF a = << >> THEN TRUE
    ELSE IF Head(a) # Head(b) THEN Head(a) < Head(b)
    ELSE StrLess(Tail(a), Tail(b))

StrLeq(a, b) == a = b \/ StrLess(a, b)

\* A window the loop skips: empty start or end, or start equal to end.
WindowSkipped(w) ==
    w.StartTime = << >> \/ w.EndTime = << >> \/ w.StartTime = w.EndTime

\* The value of `match` for window w at formatted time nowStr.
\* (variant: the end of a window that does not wrap is exclusive)
WindowMatchesMutStrictEnd(w, nowStr) ==
    IF StrLess(w.StartTime, w.EndTime)
    THEN StrLeq(w.StartTime, nowStr) /\ StrLess(nowStr, w.EndTime)
    ELSE StrLeq(w.StartTime, nowStr) \/ StrLeq(nowStr, w.EndTime)
WindowMatches(w, nowStr) ==
    IF StrLess(w.StartTime, w.EndTime)
    THEN StrLeq(w.StartTime, nowStr) /\ StrLeq(nowStr, w.EndTime)
    ELSE StrLeq(w.StartTime, nowStr) \/ StrLeq(nowStr, w.EndTime)

\* The multiplier of a matched window.
\* (variant: a refresh count of 0 counts as the source's own)
WindowCountMutNonNegative(w, sourceRefreshCount) ==
    IF sourceRefreshCount >= 0 THEN sourceRefreshCount ELSE w.DefaultCount
WindowCount(w, sourceRefreshCount) ==
    IF sourceRefreshCount > 0 THEN sourceRefreshCount ELSE w.DefaultCount

\* The loop over the windows from index i on.  The result is the interval
\* in minutes, the index of the window that decided it (0: none) and, for
\* each window the loop looked at, whether it matched.
RECURSIVE ScanSchedules(_, _, _, _, _)
ScanSchedules(scheds, i, nowStr, sourceRefreshCount, log) ==
    IF i > Len(scheds)
    THEN [ interval |-> 0, window |-> 0, matchLog |-> log ]
    ELSE LET s == scheds[i]
             match == ~WindowSkipped(s) /\ WindowMatches(s, nowStr)
         IN  IF match
             THEN [ interval |-> s.BaseRefresh * WindowCount(s, sourceRefreshCount),
                    window   |-> i,
                    matchLog |-> Append(log, TRUE) ]
             ELSE ScanSchedules(scheds, i + 1, nowStr, sourceRefreshCount,
                                Append(log, FALSE))

getEffectiveInterval(scheds, clock, sourceRefreshCount) ==
    ScanSchedules(scheds, 1, FormatClock(clock), sourceRefreshCount, << >>)

(***************************************************************************)
(* processFeedUpdate: the decision for one source on one tick.  lut is the *)
(* source's entry of lastUpdateTimes (NoTime: none), nextGlobal the        *)
(* running minimum *nextGlobalUpdate (NoTime: zero).                       *)
(***************************************************************************)
EarlierOf(nextGlobal, nextUpdate) ==
    IF nextGlobal = NoTime \/ nextUpdate < nextGlobal THEN nextUpdate ELSE nextGlobal

\* (variant: due only after more than the interval)
IsDueMutStrict(lut, clock, intervalDuration) ==
    lut = NoTime \/ clock - lut > intervalDuration
IsDue(lut, clock, intervalDuration) ==
    lut = NoTime \/ clock - lut >= intervalDuration

processFeedUpdate(scheds, sourceRefreshCount, clock, lut, nextGlobal) ==
    LET eff == getEffectiveInterval(scheds, clock, sourceRefreshCount)
        intervalDuration == eff.interval * 60
    IN  IF eff.interval <= 0
        THEN [ eff |-> eff, dispatch |-> FALSE, lut |-> lut, nextGlobal |-> nextGlobal ]
        ELSE IF IsDue(lut, clock, intervalDuration)
        THEN [ eff |-> eff, dispatch |-> TRUE, lut |-> clock,
               nextGlobal |-> EarlierOf(nextGlobal, clock + intervalDuration) ]
        ELSE [ eff |-> eff, dispatch |-> FALSE, lut |-> lut,
               nextGlobal |-> EarlierOf(nextGlobal, lut + intervalDuration) ]
(***************************************************************************)
(* Documents, items and snapshots.                                         *)
(*                                                                         *)
(* A fetched item is [link, title, ts]: ts is the feed's own timestamp     *)
(* (PublishedParsed / UpdatedParsed), NoTime when the feed gives none.     *)
(* An item of the engine is [link, title, pubDate, fetchTime, category,    *)
(* idx]; idx is OriginalIndex, which is not part of what is published.     *)
(***************************************************************************)
\* The timestamp the feed gives for a link: link 1 is older than link 2,
\* every other link carries none.
FeedStamp(l) == IF l \in {1, 2} THEN l ELSE NoTime

FeedItem(l) == [ link |-> l, title |-> 1, ts |-> FeedStamp(l) ]
Docs == SeqsUpTo({ FeedItem(l) : l \in Links }, MaxDocLen)
TimeZero == 2 * DaySeconds   \* the instant the process starts

Published(it) ==
    [ link |-> it.link, title |-> it.title, pubDate |-> it.pubDate,
      fetchTime |-> it.fetchTime, category |-> it.category ]
PublishedAll(items) == [ i \in DOMAIN items |-> Published(items[i]) ]

\* checkItems / allItems[:maxItems]
CapItems(items, maxItems) ==
    IF maxItems > 0 /\ Len(items) > maxItems THEN SubSeq(items, 1, maxItems) ELSE items

\* Change detection against the previous snapshot: isChanged and hasNewItems.
HasNewItems(cache, checkItems) ==
    \E i \in DOMAIN checkItems : checkItems[i].link \notin Range(cache.AllItemLinks)

IsChanged(cache, checkItems) ==
    \/ HasNewItems(cache, checkItems)
    \/ Len(checkItems) # Len(cache.AllItemLinks)
    \/ Len(checkItems) # Len(cache.AllItemTitles)
    \/ \E i \in DOMAIN checkItems :
          \/ checkItems[i].link # cache.AllItemLinks[i]
          \/ checkItems[i].title # cache.AllItemTitles[i]

\* cachedPubDates[link] / cachedFetchTimes[link]: the snapshot's items first
\* (a later item overwrites an earlier one), then the retained items (only
\* for a link not yet present).  NoTime: no entry.
RECURSIVE LastStamp(_, _, _)
LastStamp(items, link, field) ==
    IF items = << >> THEN NoTime
    ELSE LET it == items[Len(items)]
         IN  IF it.link = link /\ it[field] # NoTime THEN it[field]
             ELSE LastStamp(SubSeq(items, 1, Len(items) - 1), link, field)

RECURSIVE FirstStamp(_, _, _)
FirstStamp(items, link, field) ==
    IF items = << >> THEN NoTime
    ELSE IF Head(items).link = link /\ Head(items)[field] # NoTime THEN Head(items)[field]
    ELSE FirstStamp(Tail(items), link, field)

CachedStamp(snapItems, retained, link, field) ==
    IF LastStamp(snapItems, link, field) # NoTime
    THEN LastStamp(snapItems, link, field)
    ELSE FirstStamp(retained, link, field)

\* The publish timestamp of item v at index idx (0-based) of the document.
\* (variant: ranking mode takes a cached timestamp when there is one)
ReconcilePubDateMutRankingUsesCache(v, idx, src, asOf, rankingBase, cached) ==
    IF src.RankingMode /\ cached = NoTime THEN rankingBase - idx
    ELSE IF src.IgnoreOriginalPubDate THEN (IF cached # NoTime THEN cached ELSE asOf)
    ELSE IF v.ts # NoTime THEN v.ts
    ELSE IF cached # NoTime THEN cached ELSE asOf
ReconcilePubDate(v, idx, src, asOf, rankingBase, cached) ==
    IF src.RankingMode THEN rankingBase - idx
    ELSE IF src.IgnoreOriginalPubDate THEN (IF cached # NoTime THEN cached ELSE asOf)
    ELSE IF v.ts # NoTime THEN v.ts
    ELSE IF cached # NoTime THEN cached ELSE asOf

BuildAllItems(doc, src, asOf, rankingBase, snapItems, retained) ==
    [ i \in DOMAIN doc |->
        LET cachedFetch == CachedStamp(snapItems, retained, doc[i].link, "fetchTime")
        IN  [ link      |-> doc[i].link,
              title     |-> doc[i].title,
              pubDate   |-> ReconcilePubDate(doc[i], i - 1, src, asOf, rankingBase,
                               CachedStamp(snapItems, retained, doc[i].link, "pubDate")),
              fetchTime |-> IF cachedFetch # NoTime THEN cachedFetch ELSE asOf,
              category  |-> "",
              idx       |-> i - 1 ] ]

\* sort.SliceStable(allItems, less)
LessItem(a, b) ==
    IF a.pubDate = b.pubDate THEN a.idx < b.idx ELSE a.pubDate > b.pubDate

RECURSIVE InsertSorted(_, _)
InsertSorted(sorted, x) ==
    IF sorted = << >> THEN << x >>
    ELSE IF LessItem(x, Head(sorted)) THEN << x >> \o sorted
    ELSE << Head(sorted) >> \o InsertSorted(Tail(sorted), x)

RECURSIVE SortItems(_)
SortItems(items) ==
    IF items = << >> THEN << >>
    ELSE InsertSorted(SortItems(SubSeq(items, 1, Len(items) - 1)), items[Len(items)])

SelectPassed(items, passedLinks) ==
    SelectSeq(items, LAMBDA it : it.link \in passedLinks)

\* The filtered list rebuilt from the sorted full list.
RebuildFiltered(allItems, passedLinks) ==
    IF Cardinality(passedLinks) < Len(allItems)
    THEN SelectPassed(allItems, passedLinks)
    ELSE allItems
(***************************************************************************)
(* ClassifyItems, for a source whose strategy enables AI classification    *)
(* with category blacklist {"B"} and no keywords or script.  ai gives the  *)
(* backend's answer for each link it is asked about: "A", "B", or "fail"   *)
(* (the batch failed after its retries, or the index is missing).          *)
(***************************************************************************)
Categories == { "A", "B" }

Nil == [ nil |-> TRUE ]

\* A classification strategy: AI classification with category blacklist
\* {"B"} and no keywords or script.
AiStrategy ==
    [ KeywordEnabled |-> "nil", AIEnabled |-> "true", FilterKeywords |-> << >>,
      KeepKeywords |-> << >>, WhitelistMode |-> "nil", ScriptFilterEnabled |-> "nil",
      ScriptFilterContent |-> 0, BoundCategories |-> << >>,
      CategoryBlacklist |-> << "B" >>, CategoryWhitelist |-> << >>,
      CustomPrompt |-> 0 ]

CacheHit(cache, link) == link \in DOMAIN cache /\ cache[link] # ""

\* The links handed to the AI stage.
PendingLinks(items, cache) ==
    { items[i].link : i \in { j \in DOMAIN items : ~CacheHit(cache, items[j].link) } }

\* finalItems after the cache lookup and the AI stage.
Classified(items, cache, ai) ==
    [ i \in DOMAIN items |->
        IF CacheHit(cache, items[i].link)
        THEN [ items[i] EXCEPT !.category = cache[items[i].link] ]
        ELSE IF ai[items[i].link] # "fail"
        THEN [ items[i] EXCEPT !.category = ai[items[i].link] ]
        ELSE items[i] ]

\* The pending links the backend answered.
Answered(items, cache, ai) == { l \in PendingLinks(items, cache) : ai[l] # "fail" }

\* globals.ClassifyCache after the AI stage stored its answers.
StoreAnswers(cache, pending, ai) ==
    LET answered == { l \in pending : ai[l] # "fail" }
    IN  [ l \in DOMAIN cache \cup answered |->
            IF l \in answered THEN ai[l] ELSE cache[l] ]

\* applyCategoryFilter with the blacklist looked at before the whitelist.
applyCategoryFilterMutBlacklistFirst(items, strategy) ==
    IF strategy = Nil THEN items
    ELSE LET whitelistMap == Range(strategy.CategoryWhitelist)
             blacklistMap == Range(strategy.CategoryBlacklist)
         IN  SelectSeq(items, LAMBDA it :
                 IF it.category = "_keep" THEN TRUE
                 ELSE IF blacklistMap # {} THEN it.category \notin blacklistMap
                 ELSE IF whitelistMap # {} THEN it.category \in whitelistMap
                 ELSE TRUE)

\* applyCategoryFilter
applyCategoryFilter(items, strategy) ==
    IF strategy = Nil THEN items
    ELSE LET whitelistMap == Range(strategy.CategoryWhitelist)
             blacklistMap == Range(strategy.CategoryBlacklist)
         IN  SelectSeq(items, LAMBDA it :
                 IF it.category = "_keep" THEN TRUE
                 ELSE IF whitelistMap # {} THEN it.category \in whitelistMap
                 ELSE IF blacklistMap # {} THEN it.category \notin blacklistMap
                 ELSE TRUE)

\* ApplyScriptFilter returning nothing when the output does not parse.
ApplyScriptFilterMutGarbageDropsAll(items, script) ==
    IF Len(items) = 0 THEN items
    ELSE IF script.err # "none" THEN items
    ELSE IF script.output = "empty" THEN << >>
    ELSE IF script.output = "garbage" THEN << >>
    ELSE SelectSeq(items, LAMBDA it : it.link \in script.prints)

\* ApplyScriptFilter: script is what the run of the shell expression does.
\* err is "none", "timeout" or "exit" (cmd.Output's error); output is what
\* it wrote: "empty" (nothing but white space), "items" (a JSON array or
\* JSON lines, holding the items given to it whose links are in prints) or
\* "garbage" (neither).
ApplyScriptFilter(items, script) ==
    IF Len(items) = 0 THEN items
    ELSE IF script.err # "none" THEN items
    ELSE IF script.output = "empty" THEN << >>
    ELSE IF script.output = "garbage" THEN items
    ELSE SelectSeq(items, LAMBDA it : it.link \in script.prints)

\* applyFiltersAndReturn
applyFiltersAndReturn(items, strategy, script) ==
    LET kept == SelectSeq(items, LAMBDA it : it.category # "_filtered")
        byCategory ==
            IF strategy # Nil /\ ( Len(strategy.CategoryWhitelist) > 0
                                    \/ Len(strategy.CategoryBlacklist) > 0 )
            THEN applyCategoryFilter(kept, strategy) ELSE kept
    IN  IF strategy # Nil /\ strategy.ScriptFilterEnabled = "true"
                          /\ strategy.ScriptFilterContent # 0
        THEN ApplyScriptFilter(byCategory, script) ELSE byCategory

\* ClassifyItems for the strategy AiStrategy.
ClassifyItems(items, cache, ai) ==
    applyFiltersAndReturn(Classified(items, cache, ai), AiStrategy,
                          [ err |-> "exit", output |-> "empty", prints |-> {} ])

\* containsKeyword: texts are sequences of the letters k, K, f, F.
containsKeyword(text, keyword) ==
    LET ToLower(str) == [ i \in DOMAIN str |->
                            IF str[i] = "K" THEN "k"
                            ELSE IF str[i] = "F" THEN "f" ELSE str[i] ]
        t == ToLower(text)
        k == ToLower(keyword)
    IN  \E i \in 0..(Len(t) - Len(k)) : SubSeq(t, i + 1, i + Len(k)) = k

\* ClassifyItemWithCategories(item, strategy, categories, keywordOnly = true)
ClassifyItemWithCategories(item, strategy) ==
    LET matches(keywords) ==
            \E j \in DOMAIN keywords :
                \/ containsKeyword(item.title, keywords[j])
                \/ containsKeyword(item.description, keywords[j])
    IN  IF strategy = Nil THEN ""
        ELSE IF strategy.WhitelistMode = "true"
        THEN (IF matches(strategy.KeepKeywords) THEN "_keep" ELSE "_filtered")
        ELSE IF matches(strategy.KeepKeywords) THEN "_keep"
        ELSE IF matches(strategy.FilterKeywords) THEN "_filtered"
        ELSE ""

\* ClassifyItems for any strategy: categories are the categories on offer
\* (after the bound categories were applied), useAI is ShouldUseAI(rssURL).
\* The result is the list returned and (history) the links sent to the AI
\* backend.
ClassifyItemsBy(items, strategy, categories, cache, useAI, ai, script) ==
    LET byKeyword(it) ==
            IF strategy # Nil /\ ( strategy.KeywordEnabled = "true"
                                    \/ strategy.WhitelistMode = "true" )
            THEN ClassifyItemWithCategories(it, strategy) ELSE ""
        pending == { i \in DOMAIN items :
                       /\ ~CacheHit(cache, items[i].link)
                       /\ byKeyword(items[i]) \notin { "_filtered", "_keep" } }
        finalItems ==
            [ i \in DOMAIN items |->
                IF CacheHit(cache, items[i].link)
                THEN [ items[i] EXCEPT !.category = cache[items[i].link] ]
                ELSE IF i \notin pending
                THEN [ items[i] EXCEPT !.category = byKeyword(items[i]) ]
                ELSE IF ~useAI
                THEN [ items[i] EXCEPT
                         !.category = ClassifyItemWithCategories(items[i], strategy) ]
                ELSE IF ai[items[i].link] # "fail"
                THEN [ items[i] EXCEPT !.category = ai[items[i].link] ]
                ELSE items[i] ]
    IN  IF Len(categories) = 0 THEN [ out |-> items, asked |-> {} ]
        ELSE [ out |-> applyFiltersAndReturn(finalItems, strategy, script),
               asked |-> IF useAI THEN { items[i].link : i \in pending } ELSE {} ]

\* allItems with the categories of the items that passed (categoryMap).
WithCategories(allItems, filtered) ==
    [ i \in DOMAIN allItems |->
        IF \E j \in DOMAIN filtered : filtered[j].link = allItems[i].link
        THEN LET last == CHOOSE j \in DOMAIN filtered :
                           /\ filtered[j].link = allItems[i].link
                           /\ \A k \in DOMAIN filtered :
                                 filtered[k].link = allItems[i].link => k <= j
             IN  [ allItems[i] EXCEPT !.category = filtered[last].category ]
        ELSE allItems[i] ]

(***************************************************************************)
(* mergeWithCachedItems.  cached is the source's entry of ItemsCache       *)
(* (NoCache: hasCached is false).  The result is mergedItems, which is     *)
(* also what SetItemsCache stores (minus Description and Source, which     *)
(* the model does not carry).                                              *)
(***************************************************************************)
\* uniqueNewItems: the first item of every non-empty link.
RECURSIVE UniqueByLink(_, _)
UniqueByLink(items, seen) ==
    IF items = << >> THEN << >>
    ELSE IF Head(items).link # 0 /\ Head(items).link \notin seen
    THEN << Head(items) >> \o UniqueByLink(Tail(items), seen \cup { Head(items).link })
    ELSE UniqueByLink(Tail(items), seen)

\* The loop over cachedItems.
RECURSIVE Backfill(_, _, _, _)
Backfill(cached, newLinks, merged, cacheItems) ==
    IF cached = << >> THEN merged
    ELSE LET item == Head(cached)
             add == item.link # 0 /\ item.link \notin newLinks
             merged2 == IF add THEN Append(merged, item) ELSE merged
             links2 == IF add THEN newLinks \cup { item.link } ELSE newLinks
         IN  IF Len(merged2) >= cacheItems THEN merged2
             ELSE Backfill(Tail(cached), links2, merged2, cacheItems)

\* if len(mergedItems) > cacheItems { mergedItems = mergedItems[:cacheItems] }
\* (variant: no final truncation)
TruncateMutNoLimit(items, cacheItems) == items
Truncate(items, cacheItems) ==
    IF Len(items) > cacheItems THEN SubSeq(items, 1, cacheItems) ELSE items

\* (variant: the retained items first, the new items after them)
mergeMutCachedFirst(newItems, cached, cacheItems) ==
    LET unique == UniqueByLink(newItems, {})
        old == IF cached = NoCache THEN << >> ELSE UniqueByLink(cached, {})
    IN  Truncate(old \o SelectSeq(unique, LAMBDA it : it.link \notin Range(LinksOf(old))),
                 cacheItems)
mergeWithCachedItems(newItems, cached, cacheItems) ==
    LET unique == UniqueByLink(newItems, {})
        filled == IF cached = NoCache THEN unique
                  ELSE Backfill(cached, Range(LinksOf(unique)), unique, cacheItems)
    IN  Truncate(filled, cacheItems)
(***************************************************************************)
(* The update engine: UpdateFeedWithOptions as the steps of one goroutine. *)
(* A task is a record; its pc is the step it is about to take.             *)
(***************************************************************************)
SemCap == 5          \* cap(feedUpdateSemaphore)
MaxRetries == 3      \* maxRetries of the dispatch goroutine
NoDoc == << [none |-> TRUE] >>

\* What the configuration getters (GetMaxItems, GetCacheItems, ShouldFilter,
\* ...) answer for a url that no configured source has.
DefaultSource ==
    [ RefreshCount |-> 0, MaxItems |-> 0, CacheItems |-> 0,
      IgnoreOriginalPubDate |-> FALSE, RankingMode |-> FALSE,
      Filter |-> FALSE, PostProcess |-> FALSE ]

\* The settings the engine reads for url u.
SourceOf(u) == IF u \in DOMAIN Sources THEN Sources[u] ELSE DefaultSource

AddTo(bag, r) == bag (+) SetToBag({ r })
RemoveFrom(bag, r) == bag (-) SetToBag({ r })
Live(u) == { r \in BagToSet(tasks) : r.url = u }

NewTask(u, kind, force, asOf) ==
    [ pc |-> "acquire", url |-> u, kind |-> kind, force |-> force, attempt |-> 1,
      asOf |-> asOf, doc |-> << >>, all |-> << >>, filt |-> << >>,
      had |-> FALSE, cacheLU |-> NoTime, showTime |-> TRUE,
      \* history: how many of the items to publish this cycle produced
      fresh |-> 0,
      \* history: the document fetched is the one the source's last
      \* completed update fetched
      same |-> FALSE,
      \* history: this call handed links to the AI backend
      asked |-> FALSE ]

\* The tasks with one more update started on source u, and the history.
Spawn(u, kind, force) == AddTo(tasks, NewTask(u, kind, force, now))
SpawnHist(u) == [ hist EXCEPT !.overlap[u] = Live(u) # {} ]

Event(kind, u) == [ kind |-> kind, url |-> u ]

(***************************************************************************)
(* Persistence: the durable store, the dirty flag and the saving loop.     *)
(***************************************************************************)
\* The saving loop between two ticks.
SaverIdle == [ pc |-> "idle", todo |-> {}, writing |-> {}, held |-> {}, call |-> "none" ]

\* InitPersistence and loadPersistedData: the caches are read from the store
\* at start-up, so memory and store agree, nothing is dirty and the saving
\* loop waits for its first tick.
Persisted ==
    /\ store = [ classify |-> ClassifyCache, postProcess |-> PostProcessCache ]
    /\ dataChanged = FALSE
    /\ saver = SaverIdle

\* A writer of a cache waits while the saving loop holds the read lock of
\* that cache.
CanWrite(lock) == lock \notin saver.held

EngineFrame ==
    UNCHANGED << Schedules, Sources, lastUpdateTimes, NextUpdateTime, ReadState, gc,
                 reload, probe, store,
                 dataChanged, saver >>

\* RefreshSingleFeed(link) for a configured source.
ManualRefresh(u, cap) ==
    /\ BagCardinality(tasks) < cap
    /\ tasks' = Spawn(u, "manual", FALSE)
    /\ hist' = SpawnHist(u)
    /\ lastEvent' = Event("start", u)
    /\ UNCHANGED << now, sem, cleaners, DbMap, ItemsCache, ClassifyCache,
                    PostProcessCache >>
    /\ EngineFrame

\* RefreshSingleFeedForce(link) for a configured source.
ForceRefresh(u, cap) ==
    /\ BagCardinality(tasks) < cap
    /\ tasks' = Spawn(u, "force", TRUE)
    /\ hist' = SpawnHist(u)
    /\ lastEvent' = Event("start", u)
    /\ UNCHANGED << now, sem, cleaners, DbMap, ItemsCache, ClassifyCache,
                    PostProcessCache >>
    /\ EngineFrame

\* feedUpdateSemaphore <- struct{}{}
\* (variant: a semaphore without a capacity)
CanAcquireMutUnbounded(held) == TRUE
CanAcquire(held) == held < SemCap

Acquire(r) ==
    /\ r.pc = "acquire"
    /\ CanAcquire(sem)
    /\ sem' = sem + 1
    /\ tasks' = AddTo(RemoveFrom(tasks, r), [ r EXCEPT !.pc = "fetch" ])
    /\ lastEvent' = Event("acquire", r.url)
    /\ UNCHANGED << now, cleaners, DbMap, ItemsCache, ClassifyCache,
                    PostProcessCache, hist >>
    /\ EngineFrame

\* What the caller of UpdateFeed does with an error: the dispatch goroutine
\* sleeps and calls again while attempt < maxRetries; every other caller,
\* and the dispatch goroutine after its last attempt, gives up.
\* (variant: one attempt more than maxRetries)
AfterErrorMutOneMore(r) ==
    IF r.kind = "sched" /\ r.attempt <= MaxRetries
    THEN AddTo(RemoveFrom(tasks, r), [ r EXCEPT !.pc = "acquire", !.attempt = r.attempt + 1 ])
    ELSE RemoveFrom(tasks, r)
AfterError(r) ==
    IF r.kind = "sched" /\ r.attempt < MaxRetries
    THEN AddTo(RemoveFrom(tasks, r), [ r EXCEPT !.pc = "acquire", !.attempt = r.attempt + 1 ])
    ELSE RemoveFrom(tasks, r)

\* globals.Fp.ParseURL(url) returns an error.
\* (variant: the failure also removes the source's snapshot)
FetchFailMutDropsSnapshot(r) ==
    /\ r.pc = "fetch"
    /\ sem' = sem - 1
    /\ tasks' = AfterError(r)
    /\ DbMap' = [ DbMap EXCEPT ![r.url] = NoFeed ]
    /\ lastEvent' = [ kind |-> "fetchFail", url |-> r.url, by |-> r.kind,
                      attempt |-> r.attempt ]
    /\ UNCHANGED << now, cleaners, ItemsCache, ClassifyCache, PostProcessCache, hist >>
    /\ EngineFrame
FetchFail(r) ==
    /\ r.pc = "fetch"
    /\ sem' = sem - 1
    /\ tasks' = AfterError(r)
    /\ lastEvent' = [ kind |-> "fetchFail", url |-> r.url, by |-> r.kind,
                      attempt |-> r.attempt ]
    /\ UNCHANGED << now, cleaners, DbMap, ItemsCache, ClassifyCache,
                    PostProcessCache, hist >>
    /\ EngineFrame

\* The change-detection short circuit is taken.
ShortCircuit(cache, checkItems, force) ==
    /\ cache # NoFeed
    /\ Len(checkItems) > 0
    /\ ~force
    /\ ~IsChanged(cache, checkItems)

\* History: for every watched source, the time (as_of) of the first update
\* that fetched each link, NoTime before any did.  No source is watched
\* unless the initial state says so.
NoneWatched == [ u \in {} |-> [ l \in Links |-> NoTime ] ]
Observed(seen, u, items, asOf) ==
    IF u \notin DOMAIN seen THEN seen
    ELSE [ seen EXCEPT ![u] =
             [ l \in Links |-> IF seen[u][l] = NoTime /\ l \in Range(LinksOf(items))
                               THEN asOf ELSE seen[u][l] ] ]

\* globals.Fp.ParseURL(url) returns doc: change detection, then the item
\* list with its reconciled timestamps.
FetchOk(r, doc) ==
    /\ r.pc = "fetch"
    /\ LET src == SourceOf(r.url)
           cache == DbMap[r.url]
           checkItems == CapItems(doc, src.MaxItems)
           detect == cache # NoFeed /\ Len(checkItems) > 0 /\ ~r.force
           retained == IF ItemsCache[r.url] = NoCache THEN << >> ELSE ItemsCache[r.url]
           snapItems == IF cache = NoFeed THEN << >> ELSE cache.Items
       IN  IF ShortCircuit(cache, checkItems, r.force)
           THEN tasks' = AddTo(RemoveFrom(tasks, r),
                               [ r EXCEPT !.pc = "unchanged", !.doc = doc,
                                          !.same = doc = hist.lastOk[r.url] ])
           ELSE tasks' = AddTo(RemoveFrom(tasks, r),
                    [ r EXCEPT !.pc = "classify", !.doc = doc,
                        !.same = doc = hist.lastOk[r.url],
                        !.had = cache # NoFeed,
                        !.cacheLU = IF cache = NoFeed THEN NoTime ELSE cache.lastupdate,
                        !.showTime = ~(detect /\ src.IgnoreOriginalPubDate
                                         /\ ~HasNewItems(cache, checkItems)),
                        !.all = CapItems(BuildAllItems(doc, src, r.asOf, now,
                                                       snapItems, retained),
                                         src.MaxItems) ])
    /\ hist' = [ hist EXCEPT !.firstSeen =
                   Observed(hist.firstSeen, r.url,
                            CapItems(doc, SourceOf(r.url).MaxItems), r.asOf) ]
    /\ lastEvent' = Event("fetchOk", r.url)
    /\ UNCHANGED << now, sem, cleaners, DbMap, ItemsCache, ClassifyCache,
                    PostProcessCache >>
    /\ EngineFrame

\* History: r is the second of two updates of its source in succession that
\* fetched the same document, and no other update of the source ran while r
\* did (overlap is what the last start of an update of the source saw).
Repeats(r) == r.same /\ ~hist.overlap[r.url]

\* The unchanged path writing the time of the update over any value of
\* "last updated".
ReturnUnchangedMutAlwaysStamps(r) ==
    /\ r.pc = "unchanged"
    /\ DbMap' = IF DbMap[r.url] # NoFeed
                THEN [ DbMap EXCEPT ![r.url].lastupdate = r.asOf ]
                ELSE DbMap
    /\ sem' = sem - 1
    /\ tasks' = RemoveFrom(tasks, r)
    /\ hist' = [ hist EXCEPT !.lastOk[r.url] = r.doc ]
    /\ lastEvent' = [ kind |-> "unchanged", url |-> r.url, force |-> r.force,
                      repeat |-> Repeats(r), classified |-> FALSE, asked |-> FALSE,
                      replaced |-> DbMap[r.url] # NoFeed /\
                                   DbMap[r.url].lastupdate = Placeholder ]
    /\ UNCHANGED << now, cleaners, ItemsCache, ClassifyCache, PostProcessCache >>
    /\ EngineFrame

\* The unchanged path: replace the cold-start placeholder, return nil.
\* (replaced, in the event, is history: the placeholder was there.)
ReturnUnchanged(r) ==
    /\ r.pc = "unchanged"
    /\ DbMap' = IF DbMap[r.url] # NoFeed /\ DbMap[r.url].lastupdate = Placeholder
                THEN [ DbMap EXCEPT ![r.url].lastupdate = r.asOf ]
                ELSE DbMap
    /\ sem' = sem - 1
    /\ tasks' = RemoveFrom(tasks, r)
    /\ hist' = [ hist EXCEPT !.lastOk[r.url] = r.doc ]
    /\ lastEvent' = [ kind |-> "unchanged", url |-> r.url, force |-> r.force,
                      repeat |-> Repeats(r), classified |-> FALSE, asked |-> FALSE,
                      replaced |-> DbMap[r.url] # NoFeed /\
                                   DbMap[r.url].lastupdate = Placeholder ]
    /\ UNCHANGED << now, cleaners, ItemsCache, ClassifyCache, PostProcessCache >>
    /\ EngineFrame

\* The latest fetch time among items, NoTime when none has one.
MaxStamp(items) ==
    LET stamps == { items[i].fetchTime : i \in DOMAIN items } \ { NoTime }
    IN  IF stamps = {} THEN NoTime
        ELSE CHOOSE m \in stamps : \A x \in stamps : x <= m

\* PostProcessItems, as the specification describes it: the items pass (no
\* link is rewritten here) and every one of them gets a cache entry.
PostProcessItems(items, cache) ==
    [ items |-> items, cache |-> cache \cup Range(LinksOf(items)) ]

\* ClassifyItems returns (ai: the backend's answers), then the canonical
\* sort, the rebuilt filtered list and post-processing.
Classify(r, ai) ==
    /\ r.pc = "classify"
    /\ LET src == SourceOf(r.url)
           out == IF src.Filter THEN ClassifyItems(r.all, ClassifyCache, ai) ELSE r.all
           passedLinks == Range(LinksOf(out))
           sorted == SortItems(IF src.Filter THEN WithCategories(r.all, out) ELSE r.all)
           rebuilt == RebuildFiltered(sorted, passedLinks)
           post == IF src.PostProcess THEN PostProcessItems(rebuilt, PostProcessCache)
                   ELSE [ items |-> rebuilt, cache |-> PostProcessCache ]
       IN  /\ src.Filter => CanWrite("ClassifyCacheLock")
           /\ src.PostProcess => CanWrite("PostProcessCacheLock")
           /\ ClassifyCache' =
                 IF src.Filter
                 THEN StoreAnswers(ClassifyCache, PendingLinks(r.all, ClassifyCache), ai)
                 ELSE ClassifyCache
           /\ PostProcessCache' = post.cache
           \* SetPostProcessCache hands every new entry to the store.
           /\ store' = [ store EXCEPT !.postProcess = @ \cup (post.cache \ PostProcessCache) ]
           \* MarkDataChanged, once a batch was answered.
           /\ dataChanged' = IF src.Filter /\ Answered(r.all, ClassifyCache, ai) # {}
                              THEN TRUE ELSE dataChanged
           /\ tasks' = AddTo(RemoveFrom(tasks, r),
                             [ r EXCEPT !.pc = "merge", !.all = sorted,
                                        !.asked = src.Filter /\
                                            PendingLinks(r.all, ClassifyCache) # {},
                                        !.filt = PublishedAll(post.items) ])
    /\ lastEvent' = Event("classify", r.url)
    /\ UNCHANGED << now, sem, cleaners, DbMap, ItemsCache, hist >>
    /\ UNCHANGED << Schedules, Sources, lastUpdateTimes, NextUpdateTime, ReadState, gc,
                    reload, probe, saver >>

\* The cap the merge runs with: 0 is "all the filtered items".
EffectiveCap(src, filtered) ==
    IF src.CacheItems = 0 THEN Len(filtered) ELSE src.CacheItems

\* The links the per-source cleanup goroutine deletes: the old full links
\* that are neither new, nor filtered, nor displayed or retained before.
DeadLinks(cache, retained, allItems, merged) ==
    LET oldLinks == IF cache = NoFeed THEN {}
                    ELSE IF Len(cache.AllItemLinks) = 0 THEN Range(LinksOf(cache.Items))
                    ELSE Range(cache.AllItemLinks)
        oldItemLinks == (IF cache = NoFeed THEN {} ELSE Range(LinksOf(cache.Items)))
                          \cup (IF retained = NoCache THEN {} ELSE Range(LinksOf(retained)))
        currentLinks == Range(LinksOf(allItems)) \cup Range(LinksOf(merged)) \cup oldItemLinks
    IN  oldLinks \ currentLinks

\* The cache merge, then the snapshot of the old links and the start of the
\* cleanup goroutine (which has nothing to do when no link is dead).
Merge(r) ==
    /\ r.pc = "merge"
    /\ BagCardinality(cleaners) < MaxCleaners
    /\ LET src == SourceOf(r.url)
           cacheItems == EffectiveCap(src, r.filt)
           merged == IF cacheItems > 0
                     THEN mergeWithCachedItems(r.filt, ItemsCache[r.url], cacheItems)
                     ELSE r.filt
           cacheAfter == IF cacheItems > 0 THEN merged ELSE ItemsCache[r.url]
           dead == DeadLinks(DbMap[r.url], cacheAfter, r.all, merged)
       IN  /\ ItemsCache' = [ ItemsCache EXCEPT ![r.url] = cacheAfter ]
           /\ cleaners' = IF dead = {} THEN cleaners
                          ELSE AddTo(cleaners, [ url |-> r.url, dead |-> dead ])
           /\ tasks' = AddTo(RemoveFrom(tasks, r),
                             [ r EXCEPT !.pc = "publish", !.filt = merged,
                                 !.fresh = IF cacheItems > 0
                                           THEN Min(Len(UniqueByLink(r.filt, {})), cacheItems)
                                           ELSE Len(r.filt) ])
    /\ lastEvent' = Event("merge", r.url)
    /\ UNCHANGED << now, sem, DbMap, ClassifyCache, PostProcessCache, hist >>
    /\ EngineFrame

\* Custom["lastupdate"] of the new snapshot.
LastUpdateTime(r) ==
    IF MaxStamp(r.filt) # NoTime THEN MaxStamp(r.filt)
    ELSE IF ~r.showTime /\ r.had /\ r.cacheLU # Placeholder THEN r.cacheLU
    ELSE r.asOf

NewFeed(r) ==
    [ Items |-> r.filt,
      AllItemLinks |-> LinksOf(r.all),
      AllItemTitles |-> TitlesOf(r.all),
      lastupdate |-> LastUpdateTime(r),
      FilteredCount |-> Len(r.all) - Len(r.filt) ]

\* A publish that gives way: the snapshot stays when another update of the
\* source is still running.
PublishMutFirstWins(r) ==
    /\ r.pc = "publish"
    /\ DbMap' = IF DbMap[r.url] # NoFeed /\ Live(r.url) # { r }
                THEN DbMap
                ELSE [ DbMap EXCEPT ![r.url] = NewFeed(r) ]
    /\ sem' = sem - 1
    /\ tasks' = RemoveFrom(tasks, r)
    /\ hist' = [ hist EXCEPT !.lastOk[r.url] = r.doc,
                             !.fresh[r.url] = r.fresh ]
    /\ lastEvent' = [ kind |-> "publish", url |-> r.url, force |-> r.force,
                      repeat |-> Repeats(r), classified |-> SourceOf(r.url).Filter,
                      asked |-> r.asked,
                      over |-> IF DbMap[r.url] = NoFeed THEN << >>
                               ELSE DbMap[r.url].AllItemLinks ]
    /\ UNCHANGED << now, cleaners, ItemsCache, ClassifyCache, PostProcessCache >>
    /\ EngineFrame

\* globals.DbMap[url] = customFeed; return nil.
\* (over, in the event, is history: the full links of the snapshot replaced.)
Publish(r) ==
    /\ r.pc = "publish"
    /\ DbMap' = [ DbMap EXCEPT ![r.url] = NewFeed(r) ]
    /\ sem' = sem - 1
    /\ tasks' = RemoveFrom(tasks, r)
    /\ hist' = [ hist EXCEPT !.lastOk[r.url] = r.doc,
                             !.fresh[r.url] = r.fresh ]
    /\ lastEvent' = [ kind |-> "publish", url |-> r.url, force |-> r.force,
                      repeat |-> Repeats(r), classified |-> SourceOf(r.url).Filter,
                      asked |-> r.asked,
                      over |-> IF DbMap[r.url] = NoFeed THEN << >>
                               ELSE DbMap[r.url].AllItemLinks ]
    /\ UNCHANGED << now, cleaners, ItemsCache, ClassifyCache, PostProcessCache >>
    /\ EngineFrame

\* The cleanup goroutine: cleanupClassifyCacheForSource, then (for a source
\* with post-processing) cleanupPostProcessCacheForSource.
Cleanup(c) ==
    /\ CanWrite("ClassifyCacheLock")
    /\ SourceOf(c.url).PostProcess => CanWrite("PostProcessCacheLock")
    /\ ClassifyCache' = [ l \in DOMAIN ClassifyCache \ c.dead |-> ClassifyCache[l] ]
    /\ PostProcessCache' = IF SourceOf(c.url).PostProcess
                           THEN PostProcessCache \ c.dead
                           ELSE PostProcessCache
    /\ cleaners' = RemoveFrom(cleaners, c)
    /\ lastEvent' = Event("cleanup", c.url)
    /\ UNCHANGED << now, sem, tasks, DbMap, ItemsCache, hist >>
    /\ EngineFrame
(***************************************************************************)
(* The full sweep: autoCleanupLoop and cleanupPersistentData.              *)
(***************************************************************************)
GracePeriod == 86400     \* gracePeriod of cleanupReadState, seconds

FeedLinks(feed) ==
    IF feed = NoFeed THEN {} ELSE Range(feed.AllItemLinks) \cup Range(LinksOf(feed.Items))
RetainedLinks(cached) == IF cached = NoCache THEN {} ELSE Range(LinksOf(cached))

\* collectValidArticleLinks over the given snapshots and retained caches.
collectValidArticleLinks(db, retained) ==
    UNION { FeedLinks(db[u]) \cup RetainedLinks(retained[u]) : u \in DOMAIN db }

\* collectValidLinksWithPostProcess
collectValidLinksWithPostProcess(db, retained, srcs) ==
    UNION { FeedLinks(db[u]) \cup RetainedLinks(retained[u]) :
              u \in { v \in DOMAIN db : v \in DOMAIN srcs /\ srcs[v].PostProcess } }

\* isDbMapReady
isDbMapReady ==
    LET allUrls == DOMAIN Sources
        loaded == Cardinality({ u \in allUrls : DbMap[u] # NoFeed })
    IN  allUrls = {} \/ loaded >= Cardinality(allUrls)
                     \/ loaded >= (Cardinality(allUrls) * 4) \div 5

GcFrame == UNCHANGED << now, Schedules, Sources, lastUpdateTimes, NextUpdateTime, sem,
                        tasks, cleaners, DbMap, reload, hist, probe, store,
                 dataChanged, saver >>

\* A tick of the cleanup ticker: the gate, then the valid links.
GcStart ==
    /\ gc.pc = "idle"
    /\ LET valid == collectValidArticleLinks(DbMap, ItemsCache)
       IN  IF isDbMapReady /\ valid # {}
           THEN /\ gc' = [ pc |-> "classify", valid |-> valid, srcs |-> DOMAIN Sources ]
                /\ lastEvent' = Event("gcCollect", 0)
           ELSE /\ gc' = gc
                /\ lastEvent' = Event("gcSkip", 0)
    /\ UNCHANGED << ItemsCache, ClassifyCache, PostProcessCache, ReadState >>
    /\ GcFrame

\* cleanupClassifyCache(validLinks)
GcCleanClassify ==
    /\ gc.pc = "classify"
    /\ ClassifyCache' = [ l \in DOMAIN ClassifyCache \cap gc.valid |-> ClassifyCache[l] ]
    /\ gc' = [ gc EXCEPT !.pc = "read" ]
    /\ lastEvent' = Event("gcClassify", 0)
    /\ UNCHANGED << ItemsCache, PostProcessCache, ReadState >>
    /\ GcFrame

\* The read-state entries cleanupReadState deletes.
ExpiredReads(reads, valid, clock) ==
    { l \in DOMAIN reads : l \notin valid /\ ~(clock - reads[l] < GracePeriod) }

\* cleanupReadState(validLinks)
GcCleanReadState ==
    /\ gc.pc = "read"
    /\ ReadState' = [ l \in DOMAIN ReadState \ ExpiredReads(ReadState, gc.valid, now)
                        |-> ReadState[l] ]
    /\ gc' = [ gc EXCEPT !.pc = "collectpp" ]
    /\ lastEvent' = [ kind |-> "gcReadState", url |-> 0,
                      cleaned |-> Cardinality(ExpiredReads(ReadState, gc.valid, now)) ]
    /\ UNCHANGED << ItemsCache, ClassifyCache, PostProcessCache >>
    /\ GcFrame

GcCollectPostProcess ==
    /\ gc.pc = "collectpp"
    /\ gc' = [ gc EXCEPT !.pc = "cleanpp",
                         !.valid = collectValidLinksWithPostProcess(DbMap, ItemsCache,
                                                                    Sources) ]
    /\ lastEvent' = Event("gcCollectPP", 0)
    /\ UNCHANGED << ItemsCache, ClassifyCache, PostProcessCache, ReadState >>
    /\ GcFrame

\* cleanupItemsCache: the sources whose retained cache is kept.
CachingUrls == { u \in DOMAIN Sources : Sources[u].CacheItems >= 0 }

\* cleanupPostProcessCache(validLinksWithPostProcess), then cleanupItemsCache.
GcCleanPostProcess ==
    /\ gc.pc = "cleanpp"
    /\ PostProcessCache' = PostProcessCache \cap gc.valid
    /\ ItemsCache' = [ u \in DOMAIN ItemsCache |->
                         IF u \in CachingUrls THEN ItemsCache[u] ELSE NoCache ]
    /\ gc' = [ pc |-> "idle", valid |-> {}, srcs |-> {} ]
    /\ lastEvent' = Event("gcPostProcess", 0)
    /\ UNCHANGED << ClassifyCache, ReadState >>
    /\ GcFrame
(***************************************************************************)
(* The scheduler: one iteration of the loop of UpdateFeeds, which decides  *)
(* for every source in configured order, publishes the next update time    *)
(* and sleeps.                                                             *)
(***************************************************************************)
TickSleep == 10      \* time.Sleep(10 * time.Second)

RECURSIVE TickSources(_, _, _, _)
TickSources(u, luts, nextGlobal, dispatched) ==
    IF u > NumSources
    THEN [ luts |-> luts, nextGlobal |-> nextGlobal, dispatched |-> dispatched ]
    ELSE LET d == processFeedUpdate(Schedules, Sources[u].RefreshCount, now,
                                    luts[u], nextGlobal)
         IN  TickSources(u + 1, [ luts EXCEPT ![u] = d.lut ], d.nextGlobal,
                         IF d.dispatch THEN dispatched \cup { u } ELSE dispatched)

Tick(gap) ==
    /\ now <= TimeZero + MaxClock
    /\ BagCardinality(tasks) <= MaxPending
    /\ LET t == TickSources(1, lastUpdateTimes, NoTime, {})
       IN  /\ lastUpdateTimes' = t.luts
           /\ NextUpdateTime' = t.nextGlobal
           /\ tasks' = tasks (+) SetToBag({ NewTask(u, "sched", FALSE, now) :
                                              u \in t.dispatched })
           /\ hist' = [ hist EXCEPT !.overlap =
                          [ u \in Urls |-> IF u \in t.dispatched THEN Live(u) # {}
                                           ELSE hist.overlap[u] ] ]
           /\ lastEvent' = [ kind |-> "tick", url |-> 0, at |-> now,
                             dispatched |-> t.dispatched ]
    /\ now' = now + gap
    /\ UNCHANGED << Schedules, Sources, sem, cleaners, DbMap, ItemsCache,
                    ClassifyCache, PostProcessCache, ReadState, gc, reload, probe, store,
                 dataChanged, saver >>

(***************************************************************************)
(* The configuration of a source and the diff of two configurations.       *)
(*                                                                         *)
(* A *bool field is "nil", "true" or "false"; a string is a small integer  *)
(* (0: the empty string); a nil *ClassifyStrategy or *PostProcessConfig is *)
(* Nil.                                                                    *)
(***************************************************************************)
\* A post-process configuration: enabled, in the default mode.
PostProcessOn ==
    [ Enabled |-> TRUE, Mode |-> 0, Prompt |-> 0, ScriptPath |-> 0,
      ScriptContent |-> 0, ModifyTitle |-> FALSE, ModifyLink |-> FALSE,
      ModifyPubDate |-> FALSE ]

classifyChanged(old, new) ==
    IF (old = Nil) # (new = Nil) THEN TRUE
    ELSE IF old = Nil THEN FALSE
    ELSE \/ old.KeywordEnabled # new.KeywordEnabled
         \/ old.AIEnabled # new.AIEnabled
         \/ old.WhitelistMode # new.WhitelistMode
         \/ old.ScriptFilterEnabled # new.ScriptFilterEnabled
         \/ old.ScriptFilterContent # new.ScriptFilterContent
         \/ Len(old.FilterKeywords) # Len(new.FilterKeywords)
         \/ Len(old.KeepKeywords) # Len(new.KeepKeywords)

postProcessChanged(old, new) ==
    IF (old = Nil) # (new = Nil) THEN TRUE
    ELSE IF old = Nil THEN FALSE
    ELSE \/ old.Enabled # new.Enabled
         \/ old.Mode # new.Mode
         \/ old.Prompt # new.Prompt
         \/ old.ScriptPath # new.ScriptPath
         \/ old.ScriptContent # new.ScriptContent
         \/ old.ModifyTitle # new.ModifyTitle
         \/ old.ModifyLink # new.ModifyLink
         \/ old.ModifyPubDate # new.ModifyPubDate

sourceChanged(old, new) ==
    \/ old.MaxItems # new.MaxItems
    \/ old.CacheItems # new.CacheItems
    \/ old.IgnoreOriginalPubDate # new.IgnoreOriginalPubDate
    \/ old.RankingMode # new.RankingMode
    \/ classifyChanged(old.Classify, new.Classify)
    \/ postProcessChanged(old.PostProcessConfig, new.PostProcessConfig)

\* collectAffectedUrls: a configuration is a function from the urls of its
\* sources to their settings.
collectAffectedUrls(oldConfig, newConfig) ==
    { u \in DOMAIN newConfig :
        u \notin DOMAIN oldConfig \/ sourceChanged(oldConfig[u], newConfig[u]) }

(***************************************************************************)
(* The reload of the configuration: reloadFunc of WatchConfigFileChanges,  *)
(* fired by the debounce timer after a change of the file.                 *)
(***************************************************************************)
ReloadTries == 3     \* for i := 0; i < 3; i++

ReloadFrame ==
    UNCHANGED << now, Schedules, lastUpdateTimes, NextUpdateTime, sem, cleaners,
                 DbMap, ClassifyCache, gc, probe, store,
                 dataChanged, saver >>

\* The debounce timer fires: the first attempt to read the file is due.
ReloadStart ==
    /\ reload.pc = "idle"
    /\ reload' = [ pc |-> "read", attempt |-> 1 ]
    /\ lastEvent' = Event("reloadStart", 0)
    /\ UNCHANGED << Sources, tasks, ItemsCache, PostProcessCache, ReadState, hist >>
    /\ ReloadFrame

\* Where reloadFunc stands after a failed attempt: it tries again, and
\* returns after the last attempt.
\* (variant: after the last failed attempt reloadFunc goes on to the cleanup)
AfterReadErrorMutFallsThrough(attempt) ==
    IF attempt < ReloadTries THEN [ pc |-> "read", attempt |-> attempt + 1 ]
    ELSE [ pc |-> "apply", attempt |-> attempt, old |-> Sources ]
AfterReadError(attempt) ==
    IF attempt < ReloadTries THEN [ pc |-> "read", attempt |-> attempt + 1 ]
    ELSE [ pc |-> "idle", attempt |-> 0 ]

\* globals.ReloadConfig() returns an error.
ReloadReadFail ==
    /\ reload.pc = "read"
    /\ reload' = AfterReadError(reload.attempt)
    /\ lastEvent' = [ kind |-> "reloadFail", url |-> 0, attempt |-> reload.attempt ]
    /\ UNCHANGED << Sources, tasks, ItemsCache, PostProcessCache, ReadState, hist >>
    /\ ReloadFrame

\* globals.ReloadConfig() as the specification describes it: the new
\* configuration is in force and the old one is returned.
ReloadConfig(newSources) ==
    [ Sources |-> newSources, oldConfig |-> Sources ]

\* globals.ReloadConfig() succeeds with the sources newSources.
ReloadReadOk(newSources) ==
    /\ reload.pc = "read"
    /\ Sources' = ReloadConfig(newSources).Sources
    /\ reload' = [ pc |-> "apply", attempt |-> reload.attempt,
                   old |-> ReloadConfig(newSources).oldConfig ]
    /\ hist' = [ hist EXCEPT !.removed =
                   (hist.removed \cup DOMAIN Sources) \ DOMAIN newSources ]
    /\ lastEvent' = [ kind |-> "reloadOk", url |-> 0, attempt |-> reload.attempt ]
    /\ UNCHANGED << tasks, ItemsCache, PostProcessCache, ReadState >>
    /\ ReloadFrame

\* After a successful reload: CleanupPostProcessCacheOnConfigChange,
\* CleanupItemsCacheOnConfigChange, CleanupReadStateOnConfigChange, then a
\* forced update of every affected source.
ReloadApply ==
    /\ reload.pc = "apply"
    /\ LET items == [ u \in DOMAIN ItemsCache |->
                        IF u \in CachingUrls THEN ItemsCache[u] ELSE NoCache ]
           affected == collectAffectedUrls(reload.old, Sources)
       IN  /\ PostProcessCache' =
                 IF isDbMapReady
                 THEN PostProcessCache
                        \cap collectValidLinksWithPostProcess(DbMap, ItemsCache, Sources)
                 ELSE PostProcessCache
           /\ ItemsCache' = items
           /\ ReadState' =
                 IF isDbMapReady
                 THEN [ l \in DOMAIN ReadState
                              \ ExpiredReads(ReadState,
                                             collectValidArticleLinks(DbMap, items), now)
                          |-> ReadState[l] ]
                 ELSE ReadState
           /\ tasks' = tasks (+) SetToBag({ NewTask(u, "reload", TRUE, now) :
                                              u \in affected })
           /\ hist' = [ hist EXCEPT !.overlap =
                          [ u \in DOMAIN hist.overlap |->
                              IF u \in affected THEN Live(u) # {}
                              ELSE hist.overlap[u] ] ]
           /\ lastEvent' = [ kind |-> "reloadApply", url |-> 0, affected |-> affected,
                             cleaned |-> Cardinality(DOMAIN ReadState)
                                           - Cardinality(DOMAIN ReadState') ]
    /\ reload' = [ pc |-> "idle", attempt |-> 0 ]
    /\ UNCHANGED Sources
    /\ ReloadFrame

(***************************************************************************)
(* Configurations and initial states.                                      *)
(***************************************************************************)
\* A source with AI classification and a retained cache of two items.
FilteringSource ==
    [ Name |-> 1, Icon |-> 0,
      RefreshCount |-> 0, MaxItems |-> 0, CacheItems |-> 2,
      IgnoreOriginalPubDate |-> FALSE, RankingMode |-> FALSE,
      Classify |-> AiStrategy, PostProcessConfig |-> Nil,
      Filter |-> TRUE, PostProcess |-> FALSE ]

\* A source with post-processing, no classification and no retained cache.
PlainSource ==
    [ Name |-> 1, Icon |-> 0,
      RefreshCount |-> 0, MaxItems |-> 0, CacheItems |-> -1,
      IgnoreOriginalPubDate |-> FALSE, RankingMode |-> FALSE,
      Classify |-> Nil, PostProcessConfig |-> PostProcessOn,
      Filter |-> FALSE, PostProcess |-> TRUE ]

EmptyMap == [ l \in {} |-> "" ]

\* loadItemsCache: the snapshot built at start-up from a retained cache.
LoadedFeed(cached) ==
    IF cached = NoCache THEN NoFeed
    ELSE [ Items |-> cached, AllItemLinks |-> LinksOf(cached),
           AllItemTitles |-> TitlesOf(cached), lastupdate |-> Placeholder,
           FilteredCount |-> 0 ]

InitCommon ==
    /\ lastUpdateTimes = [ u \in Urls |-> NoTime ]
    /\ NextUpdateTime = NoTime
    /\ sem = 0
    /\ tasks = EmptyBag
    /\ cleaners = EmptyBag
    /\ ClassifyCache = EmptyMap
    /\ PostProcessCache = {}
    /\ ReadState = EmptyMap
    /\ gc = [ pc |-> "idle", valid |-> {}, srcs |-> {} ]
    /\ reload = [ pc |-> "idle", attempt |-> 0 ]
    /\ lastEvent = Event("init", 0)
    /\ hist = [ lastOk |-> [ u \in Urls |-> NoDoc ],
                overlap |-> [ u \in Urls |-> FALSE ],
                fresh |-> [ u \in Urls |-> 0 ],
                firstSeen |-> NoneWatched,
                removed |-> {} ]

InitEmptyCaches ==
    /\ ItemsCache = [ u \in Urls |-> NoCache ]
    /\ DbMap = [ u \in Urls |-> LoadedFeed(ItemsCache[u]) ]

AiAnswers(r) == [ PendingLinks(r.all, ClassifyCache) -> Categories \cup { "fail" } ]

\* The steps of the update goroutines, fetching documents from docs.
UpdateSteps(docs) ==
    \/ \E r \in BagToSet(tasks) : Acquire(r)
    \/ \E r \in BagToSet(tasks) : FetchFail(r)
    \/ \E r \in BagToSet(tasks), doc \in docs : FetchOk(r, doc)
    \/ \E r \in BagToSet(tasks) : ReturnUnchanged(r)
    \/ \E r \in BagToSet(tasks) :
          \E ai \in (IF r.pc = "classify" /\ SourceOf(r.url).Filter
                     THEN AiAnswers(r) ELSE { EmptyMap }) : Classify(r, ai)
    \/ \E r \in BagToSet(tasks) : Merge(r)
    \/ \E r \in BagToSet(tasks) : Publish(r)

(***************************************************************************)
(* The engine: manual and forced refreshes of the configured sources and   *)
(* the goroutines they start.                                              *)
(***************************************************************************)
Init ==
    /\ InitCommon
    /\ InitEmptyCaches
    /\ now = TimeZero
    /\ Schedules = << >>
    /\ Sources = [ u \in Urls |-> IF u = 1 THEN FilteringSource ELSE PlainSource ]
    /\ probe = [ fn |-> "none" ]
    /\ Persisted

Next ==
    \/ \E u \in Urls : ManualRefresh(u, MaxLive)
    \/ \E u \in Urls : ForceRefresh(u, MaxLive)
    \/ UpdateSteps(Docs)
    \/ \E c \in BagToSet(cleaners) : Cleanup(c)

Spec == Init /\ [][Next]_vars

(***************************************************************************)
(* The gate: more manual refreshes at once than the semaphore has room     *)
(* for, every one fetching the same one-item document.                     *)
(***************************************************************************)
MaxGate == 6         \* update goroutines alive at once (gate)
DocsOne == { << FeedItem(1) >> }

InitGate ==
    /\ InitCommon
    /\ InitEmptyCaches
    /\ now = TimeZero
    /\ Schedules = << >>
    /\ Sources = [ u \in Urls |-> PlainSource ]
    /\ probe = [ fn |-> "none" ]
    /\ Persisted

NextGate ==
    \/ \E u \in Urls : ManualRefresh(u, MaxGate)
    \/ UpdateSteps(DocsOne)

SpecGate == InitGate /\ [][NextGate]_vars

(***************************************************************************)
(* The scheduler with the goroutines it dispatches.  The clock starts at   *)
(* 00:00:00; the only window closes at 00:01:00, one interval later.  The   *)
(* first source takes the window's default count, every other source the   *)
(* refresh count 2 of its own.                                             *)
(***************************************************************************)
ClockOf(h, m, sec) == TimeZero + h * 3600 + m * 60 + sec
Window(start, end, base, count) ==
    [ StartTime |-> start, EndTime |-> end, BaseRefresh |-> base, DefaultCount |-> count ]

SchedChoices ==
    { << Window(FormatClock(ClockOf(0, 0, 0)), FormatClock(ClockOf(0, 1, 0)), 1, 1) >> }

InitSched ==
    /\ InitCommon
    /\ InitEmptyCaches
    /\ now = TimeZero
    /\ Schedules \in SchedChoices
    /\ Sources = [ u \in Urls |-> [ PlainSource EXCEPT !.RefreshCount = IF u = 1 THEN 0 ELSE 2 ] ]
    /\ probe = [ fn |-> "none" ]
    /\ Persisted

NextSched ==
    \/ \E gap \in { TickSleep, 2 * TickSleep } : Tick(gap)
    \/ UpdateSteps(DocsOne)

SpecSched == InitSched /\ [][NextSched]_vars

(***************************************************************************)
(* The full sweep racing with updates of one-item documents.               *)
(***************************************************************************)
DocsShort == { << FeedItem(l) >> : l \in Links }

NextGc ==
    \/ \E u \in Urls : ManualRefresh(u, MaxLive)
    \/ UpdateSteps(DocsShort)
    \/ \E c \in BagToSet(cleaners) : Cleanup(c)
    \/ GcStart
    \/ GcCleanClassify
    \/ GcCleanReadState
    \/ GcCollectPostProcess
    \/ GcCleanPostProcess

SpecGc == Init /\ [][NextGc]_vars

(***************************************************************************)
(* The interval policy on its own: one decision of processFeedUpdate for   *)
(* the first source, for every list of at most MaxWindows windows, every   *)
(* refresh count and every time of day below.                              *)
(***************************************************************************)
MaxWindows == 2      \* windows in a schedule list

WindowTimes == { << >>, FormatClock(ClockOf(8, 0, 0)), FormatClock(ClockOf(23, 0, 0)) }
Windows ==
    { Window(a, b, m[1], m[2]) :
        a \in WindowTimes, b \in WindowTimes, m \in { << 10, 1 >>, << 7, 2 >> } }
ProbeClocks ==
    { ClockOf(7, 59, 59), ClockOf(8, 0, 0), ClockOf(9, 0, 0), ClockOf(23, 0, 0),
      ClockOf(23, 0, 1) }
RefreshCounts == { -1, 0, 3 }

InitInterval ==
    /\ InitCommon
    /\ InitEmptyCaches
    /\ now \in ProbeClocks
    /\ Schedules \in SeqsUpTo(Windows, MaxWindows)
    /\ \E rc \in RefreshCounts :
          Sources = [ u \in Urls |-> [ PlainSource EXCEPT !.RefreshCount = rc ] ]
    /\ probe = [ fn |-> "none" ]
    /\ Persisted

\* The first source's decision on a tick at the current time.
Decide ==
    /\ probe.fn = "none"
    /\ probe' = [ fn |-> "processFeedUpdate",
                  out |-> processFeedUpdate(Schedules, Sources[1].RefreshCount, now,
                                            lastUpdateTimes[1], NoTime) ]
    /\ lastEvent' = Event("decide", 1)
    /\ UNCHANGED << now, Schedules, Sources, lastUpdateTimes, NextUpdateTime, sem,
                    tasks, cleaners, DbMap, ItemsCache, ClassifyCache,
                    PostProcessCache, ReadState, gc, reload, hist,
                    store, dataChanged, saver >>

SpecInterval == InitInterval /\ [][Decide]_vars

(***************************************************************************)
(* The merge on its own: mergeWithCachedItems for the first source, from   *)
(* every retained list and every new list of at most MaxMergeLen items     *)
(* whose links are empty, 1 or 2, with every cap up to MaxCap.             *)
(***************************************************************************)
MaxMergeLen == 3     \* items in a list handed to the merge
MaxCap == 2          \* retained-cache cap

MergeItem(l, fetchTime) ==
    [ link |-> l, title |-> 1, pubDate |-> TimeZero, fetchTime |-> fetchTime,
      category |-> "" ]
\* Retained lists as loadItemsCache restores them (no fetch time), and the
\* filtered lists of an update at the start time.
LoadedLists == SeqsUpTo({ MergeItem(l, NoTime) : l \in 0..NumLinks }, MaxMergeLen)
MergeLists == SeqsUpTo({ MergeItem(l, TimeZero) : l \in 0..NumLinks }, MaxMergeLen)

InitMerge ==
    /\ InitCommon
    /\ now = TimeZero
    /\ Schedules = << >>
    /\ Sources = [ u \in Urls |-> FilteringSource ]
    /\ \E cached \in LoadedLists \cup { NoCache } :
          ItemsCache = [ u \in Urls |-> IF u = 1 THEN cached ELSE NoCache ]
    /\ DbMap = [ u \in Urls |-> LoadedFeed(ItemsCache[u]) ]
    /\ probe = [ fn |-> "none" ]
    /\ Persisted

\* filteredItems = mergeWithCachedItems(url, filteredItems, cacheItems)
MergeStep(u, newItems, cacheItems) ==
    /\ probe.fn = "none"
    /\ LET merged == mergeWithCachedItems(newItems, ItemsCache[u], cacheItems)
       IN  /\ ItemsCache' = [ ItemsCache EXCEPT ![u] = merged ]
           /\ probe' = [ fn |-> "mergeWithCachedItems", url |-> u,
                         newItems |-> newItems, cached |-> ItemsCache[u],
                         cacheItems |-> cacheItems, out |-> merged ]
    /\ lastEvent' = Event("mergeStep", u)
    /\ UNCHANGED << now, Schedules, Sources, lastUpdateTimes, NextUpdateTime, sem,
                    tasks, cleaners, DbMap, ClassifyCache, PostProcessCache,
                    ReadState, gc, reload, hist,
                    store, dataChanged, saver >>

NextMerge == \E newItems \in MergeLists, cacheItems \in 1..MaxCap :
                MergeStep(1, newItems, cacheItems)

SpecMerge == InitMerge /\ [][NextMerge]_vars

(***************************************************************************)
(* Timestamp reconciliation over successive updates while the clock runs:  *)
(* the first source is in ranking mode, every other source ignores the     *)
(* feed's timestamps and retains one item.                                 *)
(***************************************************************************)
MaxElapse == 2       \* seconds the clock runs on after the start

RankingSource ==
    [ Name |-> 1, Icon |-> 0,
      RefreshCount |-> 0, MaxItems |-> 0, CacheItems |-> -1,
      IgnoreOriginalPubDate |-> TRUE, RankingMode |-> TRUE,
      Classify |-> Nil, PostProcessConfig |-> Nil,
      Filter |-> FALSE, PostProcess |-> FALSE ]

StickySource ==
    [ Name |-> 1, Icon |-> 0,
      RefreshCount |-> 0, MaxItems |-> 0, CacheItems |-> 1,
      IgnoreOriginalPubDate |-> TRUE, RankingMode |-> FALSE,
      Classify |-> Nil, PostProcessConfig |-> Nil,
      Filter |-> FALSE, PostProcess |-> FALSE ]

\* time.Now() moves on by a second.
Elapse(limit) ==
    /\ now < TimeZero + limit
    /\ now' = now + 1
    /\ lastEvent' = Event("elapse", 0)
    /\ UNCHANGED << Schedules, Sources, lastUpdateTimes, NextUpdateTime, sem, tasks,
                    cleaners, DbMap, ItemsCache, ClassifyCache, PostProcessCache,
                    ReadState, gc, reload, hist, probe, store,
                 dataChanged, saver >>

InitStamps ==
    /\ lastUpdateTimes = [ u \in Urls |-> NoTime ]
    /\ NextUpdateTime = NoTime
    /\ sem = 0
    /\ tasks = EmptyBag
    /\ cleaners = EmptyBag
    /\ ClassifyCache = EmptyMap
    /\ PostProcessCache = {}
    /\ ReadState = EmptyMap
    /\ gc = [ pc |-> "idle", valid |-> {}, srcs |-> {} ]
    /\ reload = [ pc |-> "idle", attempt |-> 0 ]
    /\ lastEvent = Event("init", 0)
    /\ hist = [ lastOk |-> [ u \in Urls |-> NoDoc ],
                overlap |-> [ u \in Urls |-> FALSE ],
                fresh |-> [ u \in Urls |-> 0 ],
                firstSeen |-> [ u \in Urls |-> [ l \in Links |-> NoTime ] ],
                removed |-> {} ]
    /\ InitEmptyCaches
    /\ now = TimeZero
    /\ Schedules = << >>
    /\ Sources = [ u \in Urls |-> IF u = 1 THEN RankingSource ELSE StickySource ]
    /\ probe = [ fn |-> "none" ]
    /\ Persisted

\* Updates of the ranking source alone.  The source filters nothing, so no
\* link is ever dead and no cleanup goroutine starts.
NextRanking ==
    \/ ManualRefresh(1, MaxLive)
    \/ UpdateSteps(Docs)
    \/ Elapse(MaxElapse)

SpecRanking == InitStamps /\ [][NextRanking]_vars

\* Updates of the sources that ignore the feed's timestamps.
NextSticky ==
    \/ \E u \in Urls \ { 1 } : ManualRefresh(u, MaxLive)
    \/ UpdateSteps(Docs)
    \/ \E c \in BagToSet(cleaners) : Cleanup(c)
    \/ Elapse(MaxElapse)

SpecSticky == InitStamps /\ [][NextSticky]_vars

(***************************************************************************)
(* The canonical order on its own: the item list of one fetched document   *)
(* of the first source, the list the pipeline returned for it (any         *)
(* arrangement of any of the items, possibly with an item the pipeline was *)
(* never given, as a script filter may print one), then the sort and the   *)
(* rebuilt filtered list.                                                  *)
(***************************************************************************)
MaxOrderLen == 3     \* items in a document handed to the sort

OrderItems ==
    { [ link |-> l, title |-> 1, ts |-> t ] : l \in 1..MaxOrderLen, t \in { NoTime, 1, 2 } }
OrderDocs == SeqsUpTo(OrderItems, MaxOrderLen)

\* What the pipeline may hand back for the items it was given.
PipelineReturns(allItems) ==
    SeqsUpTo({ [ allItems[i] EXCEPT !.category = "A" ] : i \in DOMAIN allItems }
                \cup { [ link |-> 0, title |-> 1, pubDate |-> TimeZero,
                         fetchTime |-> TimeZero, category |-> "A", idx |-> 0 ] },
             Len(allItems))

\* The categories of the returned items written back, the canonical sort
\* and the filtered list rebuilt from the sorted list.
\* (variant: the filtered list is left as the pipeline returned it)
CanonicalOrderMutKeepsReturned(allItems, returned) ==
    [ all |-> SortItems(WithCategories(allItems, returned)), filt |-> returned ]
CanonicalOrder(allItems, returned) ==
    LET sorted == SortItems(WithCategories(allItems, returned))
    IN  [ all |-> sorted, filt |-> RebuildFiltered(sorted, Range(LinksOf(returned))) ]

InitOrder ==
    /\ InitCommon
    /\ InitEmptyCaches
    /\ now = TimeZero
    /\ Schedules = << >>
    /\ \E cap \in { 0, 2 } :
          Sources = [ u \in Urls |-> [ FilteringSource EXCEPT !.MaxItems = cap ] ]
    /\ probe = [ fn |-> "none" ]
    /\ Persisted

\* The item list of doc for source u, built, capped, sorted and filtered.
OrderStep(u, doc, returned) ==
    /\ probe.fn = "none"
    /\ LET built == CapItems(BuildAllItems(doc, Sources[u], now, now, << >>, << >>),
                             Sources[u].MaxItems)
       IN  probe' = [ fn |-> "canonicalOrder", url |-> u, doc |-> doc, built |-> built,
                      returned |-> returned, out |-> CanonicalOrder(built, returned) ]
    /\ lastEvent' = Event("orderStep", u)
    /\ UNCHANGED << now, Schedules, Sources, lastUpdateTimes, NextUpdateTime, sem,
                    tasks, cleaners, DbMap, ItemsCache, ClassifyCache,
                    PostProcessCache, ReadState, gc, reload, hist,
                    store, dataChanged, saver >>

NextOrder ==
    /\ probe.fn = "none"
    /\ \E doc \in OrderDocs :
        \E returned \in PipelineReturns(
                CapItems(BuildAllItems(doc, Sources[1], now, now, << >>, << >>),
                         Sources[1].MaxItems)) :
            OrderStep(1, doc, returned)

SpecOrder == InitOrder /\ [][NextOrder]_vars

(***************************************************************************)
(* The full sweep beside the updates of source 2, started with the read    *)
(* state an earlier run persisted: every link was read a day ago or a      *)
(* second less.                                                            *)
(***************************************************************************)
InitReads ==
    /\ lastUpdateTimes = [ u \in Urls |-> NoTime ]
    /\ NextUpdateTime = NoTime
    /\ sem = 0
    /\ tasks = EmptyBag
    /\ cleaners = EmptyBag
    /\ ClassifyCache = EmptyMap
    /\ PostProcessCache = {}
    /\ ReadState \in [ Links -> { TimeZero - GracePeriod, TimeZero - GracePeriod + 1 } ]
    /\ gc = [ pc |-> "idle", valid |-> {}, srcs |-> {} ]
    /\ reload = [ pc |-> "idle", attempt |-> 0 ]
    /\ lastEvent = Event("init", 0)
    /\ hist = [ lastOk |-> [ u \in Urls |-> NoDoc ],
                overlap |-> [ u \in Urls |-> FALSE ],
                fresh |-> [ u \in Urls |-> 0 ],
                firstSeen |-> NoneWatched,
                removed |-> {} ]
    /\ InitEmptyCaches
    /\ now = TimeZero
    /\ Schedules = << >>
    /\ Sources = [ u \in Urls |-> IF u = 1 THEN FilteringSource ELSE PlainSource ]
    /\ probe = [ fn |-> "none" ]
    /\ Persisted

\* (No link of source 2 dies, as it filters nothing: no cleanup goroutine
\* has work.)
NextReads ==
    \/ ManualRefresh(2, MaxLive)
    \/ UpdateSteps(DocsShort)
    \/ GcStart
    \/ GcCleanClassify
    \/ GcCleanReadState
    \/ GcCollectPostProcess
    \/ GcCleanPostProcess

SpecReads == InitReads /\ [][NextReads]_vars

(***************************************************************************)
(* The reload of the configuration and the forced updates it starts.  The  *)
(* file holds the sources of the initial state, or the same with an item   *)
(* limit of one for source 1 or for both sources, or with another prompt   *)
(* for the classification of source 1, or with source 2 renamed.  A manual *)
(* refresh is asked for between reloads only.                              *)
(***************************************************************************)
ReloadedConfigs ==
    LET base == [ u \in Urls |-> IF u = 1 THEN FilteringSource ELSE PlainSource ]
    IN  { base,
          [ base EXCEPT ![1].MaxItems = 1 ],
          [ u \in Urls |-> [ base[u] EXCEPT !.MaxItems = 1 ] ],
          [ base EXCEPT ![1].Classify.CustomPrompt = 1 ],
          [ base EXCEPT ![2].Name = 2 ] }

NextReload ==
    \/ BagCardinality(tasks) < MaxLive /\ ReloadStart
    \/ ReloadReadFail
    \/ \E newSources \in ReloadedConfigs : ReloadReadOk(newSources)
    \/ ReloadApply
    \/ reload.pc = "idle" /\ ManualRefresh(2, MaxLive)
    \/ UpdateSteps(DocsShort)
    \/ \E c \in BagToSet(cleaners) : Cleanup(c)

SpecReload == Init /\ [][NextReload]_vars

\* The same where every reload succeeds and every fetch returns the same
\* document (so that no link ever dies and no cleanup goroutine has work).
\* Every update goroutine that can take a step is scheduled in the end.
NextForce ==
    \/ BagCardinality(tasks) < MaxLive /\ ReloadStart
    \/ \E newSources \in ReloadedConfigs : ReloadReadOk(newSources)
    \/ ReloadApply
    \/ reload.pc = "idle" /\ ManualRefresh(2, MaxLive)
    \/ UpdateSteps(DocsOne)

SpecForce ==
    /\ Init
    /\ [][NextForce]_vars
    /\ \A u \in Urls : WF_vars(UpdateSteps(DocsOne) /\ lastEvent'.url = u)

(***************************************************************************)
(* collectAffectedUrls on its own: the old and the new configuration hold  *)
(* at most the source of url 1, whose settings differ from a base source   *)
(* in at most one field each.                                              *)
(***************************************************************************)
DiffSources ==
    LET base == [ PlainSource EXCEPT !.Classify = AiStrategy ]
        strategies ==
            { Nil,
              [ AiStrategy EXCEPT !.KeywordEnabled = "true" ],
              [ AiStrategy EXCEPT !.KeywordEnabled = "false" ],
              [ AiStrategy EXCEPT !.AIEnabled = "false" ],
              [ AiStrategy EXCEPT !.WhitelistMode = "true" ],
              [ AiStrategy EXCEPT !.ScriptFilterEnabled = "true" ],
              [ AiStrategy EXCEPT !.ScriptFilterContent = 1 ],
              [ AiStrategy EXCEPT !.FilterKeywords = << 1 >> ],
              [ AiStrategy EXCEPT !.FilterKeywords = << 2 >> ],
              [ AiStrategy EXCEPT !.KeepKeywords = << 1 >> ],
              [ AiStrategy EXCEPT !.KeepKeywords = << 2 >> ],
              [ AiStrategy EXCEPT !.BoundCategories = << "A" >> ],
              [ AiStrategy EXCEPT !.CategoryBlacklist = << "A" >> ],
              [ AiStrategy EXCEPT !.CategoryBlacklist = << >> ],
              [ AiStrategy EXCEPT !.CategoryWhitelist = << "A" >> ],
              [ AiStrategy EXCEPT !.CustomPrompt = 1 ] }
        postProcesses ==
            { Nil,
              [ PostProcessOn EXCEPT !.Enabled = FALSE ],
              [ PostProcessOn EXCEPT !.Mode = 1 ],
              [ PostProcessOn EXCEPT !.Prompt = 1 ],
              [ PostProcessOn EXCEPT !.ScriptPath = 1 ],
              [ PostProcessOn EXCEPT !.ScriptContent = 1 ],
              [ PostProcessOn EXCEPT !.ModifyTitle = TRUE ],
              [ PostProcessOn EXCEPT !.ModifyLink = TRUE ],
              [ PostProcessOn EXCEPT !.ModifyPubDate = TRUE ] }
    IN  { base,
          [ base EXCEPT !.Name = 2 ],
          [ base EXCEPT !.Icon = 1 ],
          [ base EXCEPT !.RefreshCount = 3 ],
          [ base EXCEPT !.MaxItems = 1 ],
          [ base EXCEPT !.CacheItems = 0 ],
          [ base EXCEPT !.IgnoreOriginalPubDate = TRUE ],
          [ base EXCEPT !.RankingMode = TRUE ] }
        \cup { [ base EXCEPT !.Classify = c ] : c \in strategies }
        \cup { [ base EXCEPT !.PostProcessConfig = c ] : c \in postProcesses }

NextDiff ==
    /\ probe.fn = "none"
    /\ \E oldConfig, newConfig \in { << >> } \cup { << src >> : src \in DiffSources } :
          probe' = [ fn |-> "collectAffectedUrls", old |-> oldConfig, new |-> newConfig,
                     affected |-> collectAffectedUrls(oldConfig, newConfig) ]
    /\ UNCHANGED << now, Schedules, Sources, lastUpdateTimes, NextUpdateTime, sem,
                    tasks, cleaners, DbMap, ItemsCache, ClassifyCache,
                    PostProcessCache, ReadState, gc, reload, lastEvent, hist,
                    store, dataChanged, saver >>

SpecDiff == Init /\ [][NextDiff]_vars

(***************************************************************************)
(* ClassifyItems on its own, for one item: every title of up to            *)
(* MaxTextLen letters, the strategies with and without keyword filtering,  *)
(* whitelist mode, a keep keyword, a filter keyword, category lists and a  *)
(* script, with and without categories on offer, a cache entry, the AI     *)
(* backend.                                                                *)
(***************************************************************************)
MaxTextLen == 2

NextKeyword ==
    /\ probe.fn = "none"
    /\ \E title \in SeqsUpTo({ "k", "K", "f" }, MaxTextLen),
          description \in { << >>, << "K" >> },
          keywordEnabled, whitelistMode, scriptFilterEnabled \in { "nil", "true" },
          keepKeywords \in { << >>, << << "k" >> >> },
          filterKeywords \in { << >>, << << "F" >> >> },
          whitelist, blacklist \in { << >>, << "A" >> },
          categories \in { << >>, << "A", "B" >> },
          cache \in { EmptyMap, [ l \in { 1 } |-> "B" ] },
          useAI \in BOOLEAN,
          answer \in Categories \cup { "fail" },
          script \in { [ err |-> "exit", output |-> "empty", prints |-> {} ] }
                        \cup { [ err |-> "none", output |-> "items", prints |-> S ] :
                                 S \in { {}, Links } } :
          LET item == [ link |-> 1, title |-> title, description |-> description,
                        category |-> "" ]
              strategy == [ AiStrategy EXCEPT !.KeywordEnabled = keywordEnabled,
                                              !.WhitelistMode = whitelistMode,
                                              !.ScriptFilterEnabled = scriptFilterEnabled,
                                              !.ScriptFilterContent = 1,
                                              !.KeepKeywords = keepKeywords,
                                              !.FilterKeywords = filterKeywords,
                                              !.CategoryWhitelist = whitelist,
                                              !.CategoryBlacklist = blacklist ]
              result == ClassifyItemsBy(<< item >>, strategy, categories, cache, useAI,
                                        [ l \in Links |-> answer ], script)
          IN  probe' = [ fn |-> "ClassifyItems", item |-> item, strategy |-> strategy,
                         categories |-> categories, cache |-> cache, useAI |-> useAI,
                         answer |-> answer, script |-> script,
                         out |-> result.out, asked |-> result.asked ]
    /\ UNCHANGED << now, Schedules, Sources, lastUpdateTimes, NextUpdateTime, sem,
                    tasks, cleaners, DbMap, ItemsCache, ClassifyCache,
                    PostProcessCache, ReadState, gc, reload, lastEvent, hist,
                    store, dataChanged, saver >>

SpecKeyword == Init /\ [][NextKeyword]_vars

(***************************************************************************)
(* The stages after classification on their own: applyFiltersAndReturn on  *)
(* every list of up to MaxStageLen classified items, without a strategy or *)
(* with every combination of category lists and script switch, and every   *)
(* way the run of the script can end.                                      *)
(***************************************************************************)
MaxStageLen == 2

StageItems ==
    SeqsUpTo({ [ link |-> l, title |-> 1, category |-> c ] :
                 l \in Links, c \in Categories \cup { "", "_keep", "_filtered" } },
             MaxStageLen)

StageStrategies ==
    { Nil } \cup
    { [ AiStrategy EXCEPT !.CategoryWhitelist = whitelist,
                          !.CategoryBlacklist = blacklist,
                          !.ScriptFilterEnabled = enabled,
                          !.ScriptFilterContent = 1 ] :
        whitelist \in { << >>, << "A" >> },
        blacklist \in { << >>, << "A" >>, << "B" >> },
        enabled \in { "nil", "true" } }

ScriptRuns ==
    { [ err |-> e, output |-> o, prints |-> {} ] :
        e \in { "none", "timeout", "exit" }, o \in { "empty", "garbage" } }
    \cup { [ err |-> e, output |-> "items", prints |-> S ] :
             e \in { "none", "timeout", "exit" }, S \in SUBSET Links }

NextStages ==
    /\ probe.fn = "none"
    /\ \E items \in StageItems, strategy \in StageStrategies, script \in ScriptRuns :
          probe' = [ fn |-> "applyFiltersAndReturn", items |-> items,
                     strategy |-> strategy, script |-> script,
                     byCategory |-> applyCategoryFilter(items, strategy),
                     scriptIn |-> applyFiltersAndReturn(
                                     items,
                                     IF strategy = Nil THEN Nil
                                     ELSE [ strategy EXCEPT !.ScriptFilterEnabled = "nil" ],
                                     script),
                     out |-> applyFiltersAndReturn(items, strategy, script) ]
    /\ UNCHANGED << now, Schedules, Sources, lastUpdateTimes, NextUpdateTime, sem,
                    tasks, cleaners, DbMap, ItemsCache, ClassifyCache,
                    PostProcessCache, ReadState, gc, reload, lastEvent, hist,
                    store, dataChanged, saver >>

SpecStages == Init /\ [][NextStages]_vars

(***************************************************************************)
(* The AI stage of ClassifyItems, step by step: the pass over the cache    *)
(* and the keywords, the batches of pending items started under the        *)
(* channel sem, every attempt of ClassifyBatchItems failing or answering   *)
(* for some of the indices it was given, the results applied under the     *)
(* mutex mu, and the return after wg.Wait.  The run is held in probe, the  *)
(* classification cache is the global one.                                 *)
(***************************************************************************)
MaxBatchItems == 3   \* items handed to ClassifyItems

\* AIClassifyConfig.GetRetryCount, GetBatchSize, GetConcurrency
GetRetryCount(RetryCount) ==
    IF RetryCount < 0 THEN 0 ELSE IF RetryCount = 0 THEN 3 ELSE RetryCount

GetBatchSize(BatchSize) == IF BatchSize <= 0 THEN 5 ELSE BatchSize

GetConcurrency(Concurrency) == IF Concurrency <= 0 THEN 5 ELSE Concurrency

\* The values of retryCount, batchSize and concurrency in the configuration.
RetryCounts == { -1, 2 }
BatchSizes == { 1, 2 }
Concurrencies == { 2 }

\* Items as the fetch builds them: the first link with and without the
\* keep keyword in its title, another link without it.
BatchItems ==
    SeqsUpTo({ [ link |-> 1, title |-> t, description |-> << >>, category |-> "" ] :
                 t \in { << >>, << "k" >> } }
             \cup { [ link |-> l, title |-> << >>, description |-> << >>,
                      category |-> "" ] : l \in Links \ { 1 } },
             MaxBatchItems) \ { << >> }

BatchStrategies ==
    { [ AiStrategy EXCEPT !.KeywordEnabled = keywordEnabled,
                          !.KeepKeywords = << << "k" >> >>,
                          !.FilterKeywords = << << "f" >> >>,
                          !.CategoryBlacklist = << >>,
                          !.CategoryWhitelist = whitelist ] :
        keywordEnabled \in { "nil", "true" }, whitelist \in { << >>, << "A" >> } }

\* What loadPersistedData and earlier runs left in the classification
\* cache: a category, or an entry without category, for the first link.
BatchCaches == { [ l \in { 1 } |-> "B" ], [ l \in { 1 } |-> "" ] }

InitBatch ==
    /\ lastUpdateTimes = [ u \in Urls |-> NoTime ]
    /\ NextUpdateTime = NoTime
    /\ sem = 0
    /\ tasks = EmptyBag
    /\ cleaners = EmptyBag
    /\ ClassifyCache \in BatchCaches
    /\ PostProcessCache = {}
    /\ ReadState = EmptyMap
    /\ gc = [ pc |-> "idle", valid |-> {}, srcs |-> {} ]
    /\ reload = [ pc |-> "idle", attempt |-> 0 ]
    /\ lastEvent = Event("init", 0)
    /\ hist = [ lastOk |-> [ u \in Urls |-> NoDoc ],
                overlap |-> [ u \in Urls |-> FALSE ],
                fresh |-> [ u \in Urls |-> 0 ],
                firstSeen |-> NoneWatched,
                removed |-> {} ]
    /\ InitEmptyCaches
    /\ now = TimeZero
    /\ Schedules = << >>
    /\ Sources = [ u \in Urls |-> IF u = 1 THEN FilteringSource ELSE PlainSource ]
    /\ probe = [ fn |-> "none" ]
    /\ Persisted

BatchFrame ==
    UNCHANGED << now, Schedules, Sources, lastUpdateTimes, NextUpdateTime, sem,
                 tasks, cleaners, DbMap, ItemsCache, PostProcessCache, ReadState,
                 gc, reload, hist, store, saver >>

\* The batches without the last one when it is not full.
RECURSIVE BatchesOfMutDropsRest(_, _)
BatchesOfMutDropsRest(pendingTasks, batchSize) ==
    IF Len(pendingTasks) < batchSize THEN << >>
    ELSE << SubSeq(pendingTasks, 1, batchSize) >>
         \o BatchesOfMutDropsRest(SubSeq(pendingTasks, batchSize + 1, Len(pendingTasks)),
                                  batchSize)

\* pendingTasks[start:end] for every batch: the indices of the pending items.
RECURSIVE BatchesOf(_, _)
BatchesOf(pendingTasks, batchSize) ==
    IF Len(pendingTasks) = 0 THEN << >>
    ELSE IF Len(pendingTasks) <= batchSize THEN << pendingTasks >>
    ELSE << SubSeq(pendingTasks, 1, batchSize) >>
         \o BatchesOf(SubSeq(pendingTasks, batchSize + 1, Len(pendingTasks)), batchSize)

\* The indices of items in increasing order that satisfy Test.
IndicesWhere(items, Test(_)) ==
    LET idx == [ i \in DOMAIN items |-> i ]
    IN  SelectSeq(idx, Test)

\* The pass over one item: the cache, then the keywords.  category is what
\* finalItems holds afterwards, evaluated whether the item was handed to
\* ClassifyItemWithCategories, pending whether it joined pendingTasks.
FirstPass(item, cache, strategy) ==
    LET useKeywords == \/ strategy.KeywordEnabled = "true"
                       \/ strategy.WhitelistMode = "true"
        byKeyword == ClassifyItemWithCategories(item, strategy)
    IN  IF CacheHit(cache, item.link)
        THEN [ category |-> cache[item.link], evaluated |-> FALSE, pending |-> FALSE ]
        ELSE IF useKeywords /\ byKeyword \in { "_filtered", "_keep" }
        THEN [ category |-> byKeyword, evaluated |-> TRUE, pending |-> FALSE ]
        ELSE [ category |-> item.category, evaluated |-> useKeywords,
               pending |-> TRUE ]

\* ClassifyItems up to the start of the batches; without categories on
\* offer it returns the items at once.  History: evaluated are
\* the indices handed to ClassifyItemWithCategories, requested the indices
\* sent to the backend, missing the indices an applied response lacked,
\* lost the indices of the batches that failed, answers the categories of
\* the applied responses by index.
ClassifyStart ==
    /\ probe.fn = "none"
    /\ \E items \in BatchItems, strategy \in BatchStrategies,
          categories \in { << >>, << "A", "B" >> },
          RetryCount \in RetryCounts, BatchSize \in BatchSizes,
          Concurrency \in Concurrencies :
          LET pass == [ i \in DOMAIN items |->
                          FirstPass(items[i], ClassifyCache, strategy) ]
              isPending(i) == pass[i].pending
              pendingTasks == IndicesWhere(items, isPending)
              finalItems ==
                  [ i \in DOMAIN items |->
                      [ items[i] EXCEPT !.category = pass[i].category ] ]
              run == [ fn |-> "ClassifyItems", items |-> items, strategy |-> strategy,
                       categories |-> categories, cache |-> ClassifyCache,
                       maxRetries |-> GetRetryCount(RetryCount),
                       concurrency |-> GetConcurrency(Concurrency),
                       batchSize |-> GetBatchSize(BatchSize),
                       batches |-> [ b \in DOMAIN BatchesOf(pendingTasks,
                                                            GetBatchSize(BatchSize)) |->
                                       [ tasks |-> BatchesOf(pendingTasks,
                                                             GetBatchSize(BatchSize))[b],
                                         pc |-> "wait", tried |-> 0, failed |-> 0,
                                         resp |-> << >> ] ],
                       finalItems |-> finalItems,
                       newItems |-> 0, failedItems |-> 0,
                       evaluated |-> { i \in DOMAIN items : pass[i].evaluated },
                       requested |-> {}, missing |-> {}, lost |-> {},
                       answers |-> << >> ]
          IN  probe' =
                IF Len(categories) = 0
                THEN [ run EXCEPT !.fn = "returned", !.batches = << >>,
                                  !.finalItems = items, !.evaluated = {} ]
                       @@ [ out |-> items ]
                ELSE IF Len(pendingTasks) = 0
                THEN [ run EXCEPT !.fn = "returned" ]
                       @@ [ out |-> applyFiltersAndReturn(
                                       finalItems, strategy,
                                       [ err |-> "exit", output |-> "empty",
                                         prints |-> {} ]) ]
                ELSE run
    /\ lastEvent' = Event("classifyStart", 0)
    /\ UNCHANGED ClassifyCache
    /\ UNCHANGED dataChanged
    /\ BatchFrame

\* go func(tasks): the loop over the batches passes wg.Add and the send on
\* sem when fewer than concurrency goroutines hold it.
BatchSpawn(b) ==
    /\ probe.fn = "ClassifyItems"
    /\ probe.batches[b].pc = "wait"
    /\ \A a \in 1..(b - 1) : probe.batches[a].pc # "wait"
    /\ Cardinality({ a \in DOMAIN probe.batches :
                       probe.batches[a].pc \notin { "wait", "done" } })
         < probe.concurrency
    /\ probe' = [ probe EXCEPT !.batches[b].pc = "try" ]
    /\ lastEvent' = Event("batchSpawn", b)
    /\ UNCHANGED ClassifyCache
    /\ UNCHANGED dataChanged
    /\ BatchFrame

\* for attempt := 1; attempt <= maxRetries; attempt++, after tried
\* attempts: the loop makes the next attempt.
RetryLoop(tried, maxRetries) == tried + 1 <= maxRetries

\* An attempt of ClassifyBatchItems returns an error.
BatchAttemptFails(b) ==
    /\ probe.fn = "ClassifyItems"
    /\ probe.batches[b].pc = "try"
    /\ RetryLoop(probe.batches[b].tried, probe.maxRetries)
    /\ probe' = [ probe EXCEPT
                    !.batches[b].tried = @ + 1,
                    !.batches[b].failed = @ + 1,
                    !.batches[b].pc =
                        IF RetryLoop(probe.batches[b].tried + 1, probe.maxRetries)
                        THEN "try" ELSE "failed",
                    !.requested = @ \cup Range(probe.batches[b].tasks) ]
    /\ lastEvent' = Event("batchAttemptFails", b)
    /\ UNCHANGED ClassifyCache
    /\ UNCHANGED dataChanged
    /\ BatchFrame

\* An attempt of ClassifyBatchItems returns the parsed map: a category for
\* some of the indices of the batch.
BatchAttemptOk(b) ==
    /\ probe.fn = "ClassifyItems"
    /\ probe.batches[b].pc = "try"
    /\ RetryLoop(probe.batches[b].tried, probe.maxRetries)
    /\ \E answered \in SUBSET Range(probe.batches[b].tasks) :
       \E Results \in [ answered -> Categories ] :
          probe' = [ probe EXCEPT
                       !.batches[b].tried = @ + 1,
                       !.batches[b].pc = "answered",
                       !.batches[b].resp = Results,
                       !.requested = @ \cup Range(probe.batches[b].tasks) ]
    /\ lastEvent' = Event("batchAttemptOk", b)
    /\ UNCHANGED ClassifyCache
    /\ UNCHANGED dataChanged
    /\ BatchFrame

\* globals.ClassifyCache[link] = entry, dropping the other entries.
StoreEntryMutDropsOthers(cache, link, categoryID) ==
    [ l \in { link } |-> categoryID ]

\* globals.ClassifyCache[link] = models.ClassifyCacheEntry{Category: categoryID}
StoreEntry(cache, link, categoryID) ==
    [ l \in DOMAIN cache \cup { link } |-> IF l = link THEN categoryID ELSE cache[l] ]

\* The results of one batch with an entry without category stored for the
\* indices the response lacks.
RECURSIVE ApplyResultsMutMissingStored(_, _, _, _)
ApplyResultsMutMissingStored(batchTasks, Results, finalItems, cache) ==
    IF Len(batchTasks) = 0 THEN [ finalItems |-> finalItems, cache |-> cache ]
    ELSE LET t == Head(batchTasks)
         IN  IF t \notin DOMAIN Results
             THEN ApplyResultsMutMissingStored(
                    Tail(batchTasks), Results, finalItems,
                    StoreEntry(cache, finalItems[t].link, ""))
             ELSE ApplyResultsMutMissingStored(
                    Tail(batchTasks), Results,
                    [ finalItems EXCEPT ![t].category = Results[t] ],
                    StoreEntry(cache, finalItems[t].link, Results[t]))

\* finalItems and the cache after the results of one batch were applied,
\* task by task.
RECURSIVE ApplyResults(_, _, _, _)
ApplyResults(batchTasks, Results, finalItems, cache) ==
    IF Len(batchTasks) = 0 THEN [ finalItems |-> finalItems, cache |-> cache ]
    ELSE LET t == Head(batchTasks)
         IN  IF t \notin DOMAIN Results
             THEN ApplyResults(Tail(batchTasks), Results, finalItems, cache)
             ELSE ApplyResults(
                    Tail(batchTasks), Results,
                    [ finalItems EXCEPT ![t].category = Results[t] ],
                    StoreEntry(cache, finalItems[t].link, Results[t]))

\* Under mu: a failed batch counts its items as failed; an answered one
\* applies its results and stores them in the cache; the goroutine then
\* returns and its locals are gone.  With maxRetries 0
\* the loop made no attempt, err and resp are both nil, and reading
\* resp.Results is a nil pointer dereference: the process panics.
BatchApply(b) ==
    /\ probe.fn = "ClassifyItems"
    /\ LET batch == probe.batches[b]
       IN  \/ /\ batch.pc = "failed"
              /\ probe' = [ probe EXCEPT
                              !.batches[b] = [ batch EXCEPT !.pc = "done", !.tried = 0,
                                                            !.failed = 0 ],
                              !.failedItems = @ + Len(batch.tasks),
                              !.lost = @ \cup Range(batch.tasks) ]
              /\ UNCHANGED << ClassifyCache, dataChanged >>
           \/ /\ batch.pc = "answered"
              /\ LET after == ApplyResults(batch.tasks, batch.resp,
                                           probe.finalItems, ClassifyCache)
                     found == { t \in Range(batch.tasks) : t \in DOMAIN batch.resp }
                 IN  /\ probe' = [ probe EXCEPT
                                     !.batches[b] =
                                         [ batch EXCEPT !.pc = "done", !.tried = 0,
                                                        !.failed = 0, !.resp = << >> ],
                                     !.missing = @ \cup (Range(batch.tasks) \ found),
                                     !.answers =
                                         [ t \in DOMAIN @ \cup found |->
                                             IF t \in found THEN batch.resp[t] ELSE @[t] ],
                                     !.finalItems = after.finalItems,
                                     !.newItems = @ + Cardinality(found),
                                     !.failedItems =
                                         @ + Len(batch.tasks) - Cardinality(found) ]
                     /\ ClassifyCache' = after.cache
                     \* MarkDataChanged
                     /\ dataChanged' = TRUE
           \/ /\ batch.pc = "try"
              /\ batch.tried = 0
              /\ ~RetryLoop(0, probe.maxRetries)
              /\ probe' = [ probe EXCEPT !.fn = "panic" ]
              /\ UNCHANGED << ClassifyCache, dataChanged >>
    /\ lastEvent' = Event("batchApply", b)
    /\ BatchFrame

\* wg.Wait, then applyFiltersAndReturn.
ClassifyReturn ==
    /\ probe.fn = "ClassifyItems"
    /\ \A b \in DOMAIN probe.batches : probe.batches[b].pc = "done"
    /\ probe' = [ probe EXCEPT !.fn = "returned" ]
                  @@ [ out |-> applyFiltersAndReturn(
                                  probe.finalItems, probe.strategy,
                                  [ err |-> "exit", output |-> "empty",
                                    prints |-> {} ]) ]
    /\ lastEvent' = Event("classifyReturn", 0)
    /\ UNCHANGED ClassifyCache
    /\ UNCHANGED dataChanged
    /\ BatchFrame

NextBatch ==
    \/ ClassifyStart
    \/ probe.fn = "ClassifyItems" /\ \E b \in DOMAIN probe.batches : BatchSpawn(b)
    \/ probe.fn = "ClassifyItems" /\ \E b \in DOMAIN probe.batches : BatchAttemptFails(b)
    \/ probe.fn = "ClassifyItems" /\ \E b \in DOMAIN probe.batches : BatchAttemptOk(b)
    \/ probe.fn = "ClassifyItems" /\ \E b \in DOMAIN probe.batches : BatchApply(b)
    \/ ClassifyReturn

SpecBatch == InitBatch /\ [][NextBatch]_vars

(***************************************************************************)
(* The saving loop next to the updates of one source that classifies and   *)
(* post-processes its items.  The store starts as the caches were loaded   *)
(* from it.                                                                *)
(***************************************************************************)
MirroredSource ==
    [ FilteringSource EXCEPT !.PostProcessConfig = PostProcessOn, !.PostProcess = TRUE ]

InitMirror ==
    /\ InitCommon
    /\ InitEmptyCaches
    /\ now = TimeZero
    /\ Schedules = << >>
    /\ Sources = [ u \in Urls |-> MirroredSource ]
    /\ probe = [ fn |-> "none" ]
    /\ Persisted

MirrorFrame ==
    UNCHANGED << now, Schedules, Sources, lastUpdateTimes, NextUpdateTime, sem, tasks,
                 cleaners, DbMap, ItemsCache, ClassifyCache, PostProcessCache,
                 ReadState, gc, reload, hist, probe >>

\* autoSaveLoop, a tick: the dirty flag is read and reset; when it was set
\* SaveAllData begins with saveClassifyCache, which takes the read lock of
\* the classification cache and ranges over its entries.
SaveTick ==
    /\ saver.pc = "idle"
    /\ dataChanged' = FALSE
    /\ saver' = IF dataChanged
                THEN [ pc |-> "saveClassifyCache", todo |-> DOMAIN ClassifyCache,
                       writing |-> {}, held |-> { "ClassifyCacheLock" }, call |-> "none" ]
                ELSE saver
    /\ lastEvent' = Event("saveTick", 0)
    /\ UNCHANGED store
    /\ MirrorFrame

\* The loop body of saveClassifyCache and of savePostProcessCache calls the
\* store for the next entry.
SaveCall(l) ==
    /\ saver.pc \in { "saveClassifyCache", "savePostProcessCache" }
    /\ saver.call = "none"
    /\ l \in saver.todo
    /\ saver' = [ saver EXCEPT !.todo = @ \ { l }, !.writing = { l },
                               !.call = IF saver.pc = "saveClassifyCache"
                                        THEN "DBSaveClassifyCache"
                                        ELSE "DBSavePostProcessCache" ]
    /\ lastEvent' = Event("saveCall", 0)
    /\ UNCHANGED << store, dataChanged >>
    /\ MirrorFrame

\* DBSaveClassifyCache, DBSavePostProcessCache: the entry is inserted or
\* replaced, and the call returns.
SaveWritten ==
    /\ saver.call # "none"
    /\ store' = IF saver.call = "DBSaveClassifyCache"
                THEN [ store EXCEPT !.classify =
                         [ l \in DOMAIN @ \cup saver.writing |->
                             IF l \in saver.writing THEN ClassifyCache[l] ELSE @[l] ] ]
                ELSE [ store EXCEPT !.postProcess = @ \cup saver.writing ]
    /\ saver' = [ saver EXCEPT !.writing = {}, !.call = "none" ]
    /\ lastEvent' = Event("saveWritten", 0)
    /\ UNCHANGED dataChanged
    /\ MirrorFrame

\* saveClassifyCache returns (the deferred RUnlock), saveReadState runs, and
\* savePostProcessCache takes the read lock of the post-process cache.
SaveNext ==
    /\ saver.pc = "saveClassifyCache"
    /\ saver.todo = {}
    /\ saver.call = "none"
    /\ saver' = [ pc |-> "savePostProcessCache", todo |-> PostProcessCache,
                  writing |-> {}, held |-> { "PostProcessCacheLock" }, call |-> "none" ]
    /\ lastEvent' = Event("saveNext", 0)
    /\ UNCHANGED << store, dataChanged >>
    /\ MirrorFrame

\* savePostProcessCache returns, saveItemsCache runs, and the loop waits for
\* the next tick.
SaveDone ==
    /\ saver.pc = "savePostProcessCache"
    /\ saver.todo = {}
    /\ saver.call = "none"
    /\ saver' = SaverIdle
    /\ lastEvent' = Event("saveDone", 0)
    /\ UNCHANGED << store, dataChanged >>
    /\ MirrorFrame

NextMirror ==
    \/ ManualRefresh(1, 1)
    \/ UpdateSteps(DocsShort)
    \/ \E c \in BagToSet(cleaners) : Cleanup(c)
    \/ SaveTick
    \/ \E l \in Links : SaveCall(l)
    \/ SaveWritten
    \/ SaveNext
    \/ SaveDone

SpecMirror == InitMirror /\ [][NextMirror]_vars

(***************************************************************************)
(* Updates after a restart: loadItemsCache has built the first source's    *)
(* snapshot (with the placeholder for "last updated") from its retained    *)
(* items, and the clock runs on while the source is refreshed.             *)
(***************************************************************************)
RestoredLists ==
    { NoCache, << MergeItem(1, NoTime) >>, << MergeItem(1, NoTime), MergeItem(2, NoTime) >> }

InitRestart ==
    /\ InitCommon
    /\ now = TimeZero
    /\ Schedules = << >>
    /\ Sources = [ u \in Urls |-> FilteringSource ]
    /\ \E cached \in RestoredLists :
          ItemsCache = [ u \in Urls |-> IF u = 1 THEN cached ELSE NoCache ]
    /\ DbMap = [ u \in Urls |-> LoadedFeed(ItemsCache[u]) ]
    /\ probe = [ fn |-> "none" ]
    /\ Persisted

NextRestart ==
    \/ ManualRefresh(1, 1)
    \/ UpdateSteps(Docs)
    \/ \E c \in BagToSet(cleaners) : Cleanup(c)
    \/ Elapse(1)

SpecRestart == InitRestart /\ [][NextRestart]_vars

(***************************************************************************)
(* Two updates of the first source at once.  The site serves one document  *)
(* at the start and another one from the next second on, so a snapshot     *)
(* tells when its document was fetched.                                    *)
(***************************************************************************)
MaxOverlap == 2      \* update goroutines alive at once

DocsAt(t) == { << FeedItem(IF t = TimeZero THEN 1 ELSE 2) >> }

InitOverlap ==
    /\ InitCommon
    /\ InitEmptyCaches
    /\ now = TimeZero
    /\ Schedules = << >>
    /\ Sources = [ u \in Urls |-> PlainSource ]
    /\ probe = [ fn |-> "none" ]
    /\ Persisted

NextOverlap ==
    \/ ManualRefresh(1, MaxOverlap)
    \/ UpdateSteps(DocsAt(now))
    \/ Elapse(1)

SpecOverlap == InitOverlap /\ [][NextOverlap]_vars

(***************************************************************************)
(* WatchConfigFileChanges: the notifications of the watcher, the debounce  *)
(* timer and the goroutines reloadFunc runs in.  Time passes in steps of   *)
(* 100 ms; a blocking call inside reloadFunc (file reads, sleeps, cache    *)
(* locks) may take any time.  The watch is held in probe: timer is the     *)
(* time left on debounceTimer (TimerOff: nil, stopped or fired), running   *)
(* the number of reloadFunc goroutines that have not returned.  History:   *)
(* since is the time since the last notification that reported a write,    *)
(* create or rename (capped at the debounce interval), owed whether no     *)
(* reload has started since that notification, started the number of       *)
(* reloads started since then.                                             *)
(***************************************************************************)
DebounceInterval == 5    \* debounceInterval, 500 ms in steps of 100 ms
MaxReloads == 2          \* reloadFunc goroutines alive at once
TimerOff == -1

\* event.Op, a set of operations reported in one notification.
WatchOps ==
    { { "Write" }, { "Create" }, { "Rename" }, { "Remove" }, { "Chmod" },
      { "Write", "Chmod" } }

ReportsChange(op) == op \cap { "Write", "Create", "Rename" } # {}

InitWatch ==
    /\ InitCommon
    /\ InitEmptyCaches
    /\ now = TimeZero
    /\ Schedules = << >>
    /\ Sources = [ u \in Urls |-> PlainSource ]
    /\ probe = [ fn |-> "WatchConfigFileChanges", timer |-> TimerOff, running |-> 0,
                 since |-> DebounceInterval, owed |-> FALSE, started |-> 0,
                 op |-> {} ]
    /\ Persisted

WatchFrame ==
    UNCHANGED << now, Schedules, Sources, lastUpdateTimes, NextUpdateTime, sem, tasks,
                 cleaners, DbMap, ItemsCache, ClassifyCache, PostProcessCache,
                 ReadState, gc, reload, hist, store, dataChanged, saver >>

\* The debounce timer has expired and reloadFunc has not been started yet:
\* nothing else happens at that instant.
TimerDue == probe.timer = 0

\* case event := <-watcher.Events: a notification with Chmod in its mask is
\* skipped; one with Write, Create or Rename stops the timer and arms it
\* anew.
WatchEvent(op) ==
    /\ ~TimerDue
    /\ probe' = [ probe EXCEPT
                    !.timer = IF "Chmod" \notin op /\ ReportsChange(op)
                              THEN DebounceInterval ELSE @,
                    !.since = IF ReportsChange(op) THEN 0 ELSE @,
                    !.owed = IF ReportsChange(op) THEN TRUE ELSE @,
                    !.started = IF ReportsChange(op) THEN 0 ELSE @,
                    !.op = op ]
    /\ lastEvent' = Event("watchEvent", 0)
    /\ WatchFrame

\* 100 ms pass.
WatchTime ==
    /\ ~TimerDue
    /\ probe' = [ probe EXCEPT
                    !.timer = IF @ = TimerOff THEN @ ELSE @ - 1,
                    !.since = IF @ < DebounceInterval THEN @ + 1 ELSE @ ]
    /\ lastEvent' = Event("watchTime", 0)
    /\ WatchFrame

\* time.AfterFunc: the timer expires and reloadFunc starts in a goroutine
\* of its own.
reloadFuncStart ==
    /\ TimerDue
    /\ probe.running < MaxReloads
    /\ probe' = [ probe EXCEPT !.timer = TimerOff, !.running = @ + 1,
                               !.owed = FALSE, !.started = @ + 1 ]
    /\ lastEvent' = Event("reloadFuncStart", 0)
    /\ WatchFrame

\* reloadFunc returns, after the reads of the configuration, the cleanups
\* and the start of the updates.
reloadFuncReturn ==
    /\ probe.running > 0
    /\ probe' = [ probe EXCEPT !.running = @ - 1 ]
    /\ lastEvent' = Event("reloadFuncReturn", 0)
    /\ WatchFrame

NextWatch ==
    \/ \E op \in WatchOps : WatchEvent(op)
    \/ WatchTime
    \/ reloadFuncStart
    \/ reloadFuncReturn

SpecWatch == InitWatch /\ [][NextWatch]_vars

(***************************************************************************)
(* The rebuild of the filtered list on its own: every capped full list of  *)
(* up to MaxRebuildLen items and every list ClassifyItems can return for   *)
(* it.  With the script filter the returned items are whatever the script  *)
(* wrote, so their links need not be links of the input.                   *)
(***************************************************************************)
MaxRebuildLen == 2

ForeignLink == NumLinks + 1

RebuildInputs ==
    { items \in SeqsUpTo({ [ link |-> l, title |-> 1, pubDate |-> TimeZero + d,
                             fetchTime |-> TimeZero, category |-> "", idx |-> i ] :
                             l \in Links, d \in { 0, 1 }, i \in 0..(MaxRebuildLen - 1) },
                         MaxRebuildLen) :
        \A i \in DOMAIN items : items[i].idx = i - 1 }

PipelineOutputs ==
    SeqsUpTo({ [ link |-> l, title |-> 1, pubDate |-> TimeZero, fetchTime |-> TimeZero,
                 category |-> c, idx |-> 0 ] :
                 l \in Links \cup { ForeignLink }, c \in { "", "A" } },
             MaxRebuildLen)

\* filteredItems = ClassifyItems(allItems, url), passedLinks, categoryMap,
\* the sort and the rebuild of the filtered list.
RebuildStep ==
    /\ probe.fn = "none"
    /\ \E allItems \in RebuildInputs, out \in PipelineOutputs :
          LET passedLinks == Range(LinksOf(out))
              sorted == SortItems(WithCategories(allItems, out))
          IN  probe' = [ fn |-> "rebuild", allItems |-> allItems, out |-> out,
                         passedLinks |-> passedLinks, sorted |-> sorted,
                         filteredItems |-> RebuildFiltered(sorted, passedLinks) ]
    /\ lastEvent' = Event("rebuild", 0)
    /\ UNCHANGED << now, Schedules, Sources, lastUpdateTimes, NextUpdateTime, sem, tasks,
                    cleaners, DbMap, ItemsCache, ClassifyCache, PostProcessCache,
                    ReadState, gc, reload, hist, store, dataChanged, saver >>

SpecRebuild == Init /\ [][RebuildStep]_vars

(***************************************************************************)
(* The retained items of one source written to the durable store and read  *)
(* back at the next start: the projection mergeWithCachedItems keeps, the   *)
(* rows SetItemsCache writes, and the items loadItemsCache builds from     *)
(* them and from the classification cache.  Link 0 is the empty string.    *)
(***************************************************************************)
MaxRetained == 2

\* cachedItemsToSave: lists without empty or repeated links.
RetainedLists ==
    { items \in SeqsUpTo({ [ title |-> 1, link |-> l, originalLink |-> o,
                             pubDate |-> TimeZero, fetchTime |-> f, category |-> c ] :
                             l \in Links, o \in { 0, 2 }, f \in { NoTime, TimeZero },
                             c \in { "", "A", "_keep" } },
                         MaxRetained) :
        NoDupLinks(items) }

\* The classification cache at the next start.
RestartCaches == { EmptyMap, [ l \in { 1 } |-> "A" ], [ l \in { 2 } |-> "B" ] }

\* SetItemsCache, the goroutine: one DBItemsCacheEntry for every item.  The
\* field FetchTime is not set and keeps the zero value.
ItemsCacheEntries(items) ==
    [ i \in DOMAIN items |->
        [ Title |-> items[i].title, Link |-> items[i].link,
          OriginalLink |-> items[i].originalLink, PubDate |-> items[i].pubDate,
          FetchTime |-> NoTime ] ]

\* loadItemsCache: an item for every row, in the order of the rows, with
\* the category the classification cache holds for its link or, failing
\* that, for its original link.
loadItemsCache(entries, cache) ==
    [ i \in DOMAIN entries |->
        [ title |-> entries[i].Title, link |-> entries[i].Link,
          originalLink |-> entries[i].OriginalLink, pubDate |-> entries[i].PubDate,
          fetchTime |-> NoTime,
          category |-> IF entries[i].Link \in DOMAIN cache THEN cache[entries[i].Link]
                       ELSE IF entries[i].OriginalLink # 0
                               /\ entries[i].OriginalLink \in DOMAIN cache
                       THEN cache[entries[i].OriginalLink]
                       ELSE "" ] ]

\* DBSaveItemsCache replaces the rows of the source by the entries;
\* DBLoadItemsCache reads them back ordered by id, the order of insertion.
RoundTripStep ==
    /\ probe.fn = "none"
    /\ \E items \in RetainedLists, cache \in RestartCaches :
          LET rows == ItemsCacheEntries(items)
          IN  probe' = [ fn |-> "loadItemsCache", stored |-> items, rows |-> rows,
                         cache |-> cache, loaded |-> loadItemsCache(rows, cache) ]
    /\ lastEvent' = Event("loadItemsCache", 0)
    /\ UNCHANGED << now, Schedules, Sources, lastUpdateTimes, NextUpdateTime, sem, tasks,
                    cleaners, DbMap, ItemsCache, ClassifyCache, PostProcessCache,
                    ReadState, gc, reload, hist, store, dataChanged, saver >>

SpecRoundTrip == Init /\ [][RoundTripStep]_vars

(***************************************************************************)
(* The tail of one update: the capped fetched items and the items that     *)
(* passed the pipeline are given, the merge with the retained cache and    *)
(* the publication follow.  The source's retained-cache policy and the     *)
(* retained list at the start are free.                                    *)
(***************************************************************************)
MaxFetched == 2      \* capped fetched items of the update

\* cache_items of the source: disabled, auto, and two caps.
RetainPolicies == { -1, 0, 1, 2 }
FetchedLists == SeqsUpTo({ MergeItem(l, TimeZero) : l \in 0..NumLinks }, MaxFetched)

\* The items of allItems at the positions in keep, in order.
RECURSIVE PassedOf(_, _, _)
PassedOf(allItems, keep, i) ==
    IF i > Len(allItems) THEN << >>
    ELSE (IF i \in keep THEN << allItems[i] >> ELSE << >>)
         \o PassedOf(allItems, keep, i + 1)

InitRetain ==
    /\ InitCommon
    /\ now = TimeZero
    /\ Schedules = << >>
    /\ \E policy \in RetainPolicies :
          Sources = [ u \in Urls |-> [ FilteringSource EXCEPT !.CacheItems = policy ] ]
    /\ \E cached \in LoadedLists \cup { NoCache } :
          ItemsCache = [ u \in Urls |-> IF u = 1 THEN cached ELSE NoCache ]
    /\ DbMap = [ u \in Urls |-> LoadedFeed(ItemsCache[u]) ]
    /\ probe = [ fn |-> "none" ]
    /\ Persisted

\* UpdateFeedWithOptions up to the end of the pipeline: allItems after the
\* cap, originalCount, and filteredItems as the pipeline leaves them.
\* (probe is history: the lists and the retained cache at that point.)
PipelineDone(u, allItems, keep) ==
    /\ probe.fn = "none"
    /\ tasks = EmptyBag
    /\ LET passed == PassedOf(allItems, keep, 1)
           cache == DbMap[u]
       IN  /\ tasks' = AddTo(tasks,
                 [ NewTask(u, "manual", FALSE, now) EXCEPT
                     !.pc = "merge", !.all = allItems, !.filt = passed,
                     !.had = cache # NoFeed,
                     !.cacheLU = IF cache = NoFeed THEN NoTime ELSE cache.lastupdate ])
           /\ probe' = [ fn |-> "UpdateFeedWithOptions", url |-> u,
                         all |-> allItems, passed |-> passed,
                         cached |-> ItemsCache[u] ]
    /\ sem' = sem + 1
    /\ lastEvent' = Event("pipeline", u)
    /\ UNCHANGED << now, Schedules, Sources, lastUpdateTimes, NextUpdateTime,
                    cleaners, DbMap, ItemsCache, ClassifyCache, PostProcessCache,
                    ReadState, gc, reload, hist, store, dataChanged, saver >>

NextRetain ==
    \/ \E allItems \in FetchedLists :
          \E keep \in SUBSET (1..MaxFetched) : PipelineDone(1, allItems, keep)
    \/ \E r \in BagToSet(tasks) : Merge(r)
    \/ \E r \in BagToSet(tasks) : Publish(r)

SpecRetain == InitRetain /\ [][NextRetain]_vars

(***************************************************************************)
(* The asynchronous durable writes: MarkRead, MarkUnread and SetItemsCache *)
(* change the map in memory under its lock and start a goroutine that      *)
(* writes to the database; the goroutines run in any order.  probe holds   *)
(* the tables read_state and items_cache (of source 1) and the goroutines  *)
(* in the order they were started.                                         *)
(***************************************************************************)
MaxCalls == 3        \* calls of MarkRead, MarkUnread and SetItemsCache

\* The lists handed to SetItemsCache.
AsyncLists ==
    { items \in RetainedLists :
        /\ Len(items) <= 1
        /\ \A i \in DOMAIN items : /\ items[i].originalLink = 0
                                   /\ items[i].fetchTime = TimeZero
                                   /\ items[i].category = "" }

InitAsync ==
    /\ InitCommon
    /\ InitEmptyCaches
    /\ now = TimeZero
    /\ Schedules = << >>
    /\ Sources = [ u \in Urls |-> FilteringSource ]
    /\ probe = [ fn |-> "go", read_state |-> EmptyMap, items_cache |-> << >>,
                 goroutines |-> << >>, overlap |-> FALSE ]
    /\ Persisted

AsyncFrame ==
    UNCHANGED << now, Schedules, Sources, lastUpdateTimes, NextUpdateTime, sem,
                 tasks, cleaners, DbMap, ClassifyCache, PostProcessCache, gc,
                 reload, hist, store, dataChanged, saver >>

\* go func() { ... }() for a write of the given key.
\* (overlap is history: a goroutine was started while another one for the
\* same key had not written yet.)
Go(op, key, readAt, entries) ==
    [ probe EXCEPT
        !.goroutines = Append(@, [ op |-> op, key |-> key, readAt |-> readAt,
                                   entries |-> entries, done |-> FALSE ]),
        !.overlap = @ \/ \E g \in DOMAIN probe.goroutines :
                            /\ ~probe.goroutines[g].done
                            /\ probe.goroutines[g].key = key ]

MarkRead(link) ==
    /\ Len(probe.goroutines) < MaxCalls
    /\ ReadState' = [ l \in DOMAIN ReadState \cup { link } |->
                        IF l = link THEN now ELSE ReadState[l] ]
    /\ probe' = Go("DBSaveReadState", << "read_state", link >>, now, << >>)
    /\ lastEvent' = Event("MarkRead", link)
    /\ UNCHANGED ItemsCache
    /\ AsyncFrame

MarkUnread(link) ==
    /\ Len(probe.goroutines) < MaxCalls
    /\ ReadState' = [ l \in DOMAIN ReadState \ { link } |-> ReadState[l] ]
    /\ probe' = Go("DBDeleteReadState", << "read_state", link >>, NoTime, << >>)
    /\ lastEvent' = Event("MarkUnread", link)
    /\ UNCHANGED ItemsCache
    /\ AsyncFrame

SetItemsCache(rssURL, items) ==
    /\ Len(probe.goroutines) < MaxCalls
    /\ ItemsCache' = [ ItemsCache EXCEPT ![rssURL] = items ]
    /\ probe' = Go("DBSaveItemsCache", << "items_cache", rssURL >>, NoTime,
                   ItemsCacheEntries(items))
    /\ lastEvent' = Event("SetItemsCache", rssURL)
    /\ UNCHANGED ReadState
    /\ AsyncFrame

\* The goroutine g runs: its statement (or transaction) on the database.
WriteDone(g) ==
    /\ g \in DOMAIN probe.goroutines
    /\ ~probe.goroutines[g].done
    /\ LET w == probe.goroutines[g]
           link == w.key[2]
       IN  probe' = [ probe EXCEPT
             !.goroutines[g].done = TRUE,
             !.read_state =
                 IF w.op = "DBSaveReadState"
                 THEN [ l \in DOMAIN @ \cup { link } |->
                          IF l = link THEN w.readAt ELSE @[l] ]
                 ELSE IF w.op = "DBDeleteReadState"
                 THEN [ l \in DOMAIN @ \ { link } |-> @[l] ]
                 ELSE @,
             !.items_cache =
                 IF w.op = "DBSaveItemsCache" THEN w.entries ELSE @ ]
    /\ lastEvent' = Event("write", g)
    /\ UNCHANGED << ReadState, ItemsCache >>
    /\ AsyncFrame

NextAsync ==
    \/ \E link \in Links : MarkRead(link)
    \/ \E link \in Links : MarkUnread(link)
    \/ \E items \in AsyncLists : SetItemsCache(1, items)
    \/ \E g \in 1..MaxCalls : WriteDone(g)

SpecAsync == InitAsync /\ [][NextAsync]_vars

(***************************************************************************)
(* The full sweep and the reload of the configuration over start-up        *)
(* states: loadPersistedData restores the caches an earlier run persisted  *)
(* (here every link is classified and post-processed) and loadItemsCache   *)
(* builds a snapshot from every retained cache.  No update is running.     *)
(***************************************************************************)
MaxConfigured == 5   \* sources of the configuration at start-up

SweepSource(u) == IF u % 2 = 1 THEN FilteringSource ELSE PlainSource
\* The configuration with the sources 1..n.
SweepConfig(n) == [ u \in 1..n |-> SweepSource(u) ]

\* Read timestamps restored at start-up: a day old, or a second short of it.
PersistedReads == { TimeZero - GracePeriod, TimeZero - GracePeriod + 1 }

InitSweep ==
    /\ lastUpdateTimes = [ u \in Urls |-> NoTime ]
    /\ NextUpdateTime = NoTime
    /\ sem = 0
    /\ tasks = EmptyBag
    /\ cleaners = EmptyBag
    /\ ClassifyCache = [ l \in Links |-> "A" ]
    /\ PostProcessCache = Links
    /\ ReadState \in UNION { [ S -> PersistedReads ] : S \in SUBSET Links }
    /\ gc = [ pc |-> "idle", valid |-> {}, srcs |-> {} ]
    /\ reload = [ pc |-> "idle", attempt |-> 0 ]
    /\ lastEvent = Event("init", 0)
    /\ hist = [ lastOk |-> [ u \in Urls |-> NoDoc ],
                overlap |-> [ u \in Urls |-> FALSE ],
                fresh |-> [ u \in Urls |-> 0 ],
                firstSeen |-> NoneWatched,
                removed |-> {} ]
    /\ now = TimeZero
    /\ Schedules = << >>
    /\ probe = [ fn |-> "none" ]
    /\ Persisted
    /\ Sources \in { SweepConfig(n) : n \in 1..MaxConfigured }
    \* the retained cache of source u, if any, holds its one article
    /\ ItemsCache \in [ 1..MaxConfigured ->
                          { NoCache } \cup { << MergeItem(l, NoTime) >> : l \in Links } ]
    /\ \A u \in DOMAIN ItemsCache :
          ItemsCache[u] # NoCache => ItemsCache[u][1].link = ((u - 1) % NumLinks) + 1
    /\ DbMap = [ u \in DOMAIN ItemsCache |-> LoadedFeed(ItemsCache[u]) ]

\* The configurations a reload of the file may bring: the same sources, or
\* all but the last.
ReloadedSweepConfigs ==
    { Sources } \cup { SweepConfig(n - 1) : n \in { Cardinality(DOMAIN Sources) } \ { 0 } }

NextSweep ==
    \/ GcStart
    \/ GcCleanClassify
    \/ GcCleanReadState
    \/ GcCollectPostProcess
    \/ GcCleanPostProcess
    \/ ReloadStart
    \/ \E newSources \in ReloadedSweepConfigs : ReloadReadOk(newSources)
    \/ ReloadApply

SpecSweep == InitSweep /\ [][NextSweep]_vars

(***************************************************************************)
(* Properties.                                                             *)
(***************************************************************************)
\* The step just taken completed an update (published or short-circuited).
Completes == lastEvent'.kind \in { "publish", "unchanged" }

\* C1: an update with force=false that fetches the document the source's
\* previous update fetched leaves the published snapshot of the source as
\* it was, runs no classification and hands no link to the AI backend.
C1_RepeatIsIdempotent ==
    [][ (Completes /\ lastEvent'.repeat /\ ~lastEvent'.force)
          => /\ DbMap'[lastEvent'.url] = DbMap[lastEvent'.url]
             /\ ~lastEvent'.classified
             /\ ~lastEvent'.asked ]_vars

C3_DeletesOnlyInvalidLinks ==
    [][ \A l \in Links :
          ( \/ l \in DOMAIN ClassifyCache /\ l \notin DOMAIN ClassifyCache'
            \/ l \in PostProcessCache /\ l \notin PostProcessCache'
            \/ l \in DOMAIN ReadState /\ l \notin DOMAIN ReadState' )
          => l \notin collectValidArticleLinks(DbMap, ItemsCache) ]_vars

\* C4: right after a merge step with cap N > 0 the source's retained cache
\* has at most N entries and no two entries with the same link.
C4_CacheBound ==
    probe.fn = "mergeWithCachedItems"
        => /\ Len(ItemsCache[probe.url]) <= probe.cacheItems
           /\ NoDupLinks(ItemsCache[probe.url])
           /\ ItemsCache[probe.url] = probe.out

\* A merge of more than N distinct new items into a retained list that held
\* duplicates and an empty link.
C4_Witness ==
    /\ probe.fn = "mergeWithCachedItems"
    /\ probe.cached # NoCache
    /\ ~NoDupLinks(probe.cached)
    /\ 0 \in Range(LinksOf(probe.cached))
    /\ Cardinality(Range(LinksOf(probe.newItems)) \ { 0 }) > probe.cacheItems
    /\ Len(probe.out) = probe.cacheItems

\* The update goroutines between acquiring and releasing the gate.
Holders ==
    [ r \in { x \in BagToSet(tasks) : x.pc # "acquire" } |-> CopiesIn(r, tasks) ]

\* C5: at most 5 updates, over all sources, hold the gate at once; the gate
\* counts exactly them, and a further update passes the gate only when fewer
\* than 5 hold it.
C5_GateBound ==
    /\ [](BagCardinality(Holders) <= 5 /\ sem = BagCardinality(Holders))
    /\ [][ lastEvent'.kind = "acquire" => sem < 5 ]_vars

\* Five updates hold the gate and a sixth waits before its fetch.
C5_Witness ==
    /\ BagCardinality(Holders) = 5
    /\ \E r \in BagToSet(tasks) : r.pc = "acquire"
    /\ \E r, q \in BagToSet(Holders) : r.url # q.url

\* C6: a call whose fetch fails changes neither the published snapshots nor
\* the retained caches nor the classification cache, and a snapshot changes
\* only in the step that completes an update of its source.
C6_FetchFailureKeepsState ==
    [][ /\ lastEvent'.kind \in { "acquire", "fetchFail" }
            => UNCHANGED << DbMap, ItemsCache, ClassifyCache >>
        /\ \A u \in Urls :
              DbMap'[u] # DbMap[u] => Completes /\ lastEvent'.url = u ]_vars

\* A fetch has just failed for a source that has a published snapshot, a
\* retained cache and classified links.
C6_Witness ==
    /\ lastEvent.kind = "fetchFail"
    /\ DbMap[lastEvent.url] # NoFeed
    /\ ItemsCache[lastEvent.url] # NoCache
    /\ DOMAIN ClassifyCache # {}

\* The effective interval of source u, in minutes, at the current time.
IntervalOf(u) == getEffectiveInterval(Schedules, now, Sources[u].RefreshCount).interval

\* C7: on a tick a source is dispatched iff its effective interval is > 0 and
\* it was never dispatched or at least the interval has passed since its last
\* dispatch; a dispatch starts one update goroutine and sets the last
\* dispatch to the tick's time at once, whatever the earlier updates of the
\* source are doing.
C7_DispatchIffDue ==
    [][ lastEvent'.kind = "tick"
          => \A u \in Urls :
               LET last == lastUpdateTimes[u]
                   due == /\ IntervalOf(u) > 0
                          /\ (last = NoTime \/ now - last >= IntervalOf(u) * 60)
                   started == NewTask(u, "sched", FALSE, now)
               IN  /\ u \in lastEvent'.dispatched <=> due
                   /\ lastUpdateTimes'[u] = IF due THEN now ELSE last
                   /\ CopiesIn(started, tasks') =
                         CopiesIn(started, tasks) + (IF due THEN 1 ELSE 0) ]_vars

\* A tick has just dispatched a source again while the update of its earlier
\* dispatch is still running, and at that tick left another source alone.
C7_Witness ==
    /\ lastEvent.kind = "tick"
    /\ \E u \in lastEvent.dispatched :
          \E r \in BagToSet(tasks) : r.url = u /\ r.asOf < lastEvent.at
    /\ lastEvent.dispatched # Urls

\* C8: a dispatch makes between 1 and 3 calls of update; a further call is
\* made only by the step in which the previous call returned an error, a
\* call that succeeds ends the dispatch, and so does the third failure.
C8_RetryOnlyAfterError ==
    /\ [](\A r \in BagToSet(tasks) :
             r.attempt \in 1..3 /\ (r.kind # "sched" => r.attempt = 1))
    /\ [][ /\ (\E r \in BagToSet(tasks') :
                  /\ r.pc = "acquire" /\ r.attempt > 1
                  /\ CopiesIn(r, tasks') > CopiesIn(r, tasks))
               => lastEvent'.kind = "fetchFail"
           /\ Completes => BagCardinality(tasks') = BagCardinality(tasks) - 1
           /\ (lastEvent'.kind = "fetchFail" /\ lastEvent'.by = "sched")
               => IF lastEvent'.attempt < 3
                  THEN /\ BagCardinality(tasks') = BagCardinality(tasks)
                       /\ \E r \in BagToSet(tasks') :
                             /\ r.pc = "acquire" /\ r.url = lastEvent'.url
                             /\ r.attempt = lastEvent'.attempt + 1
                             /\ CopiesIn(r, tasks') > CopiesIn(r, tasks)
                  ELSE BagCardinality(tasks') = BagCardinality(tasks) - 1 ]_vars

\* The third call of a dispatch has just failed and the dispatch is over.
C8_Witness ==
    /\ lastEvent.kind = "fetchFail"
    /\ lastEvent.by = "sched"
    /\ lastEvent.attempt = 3
    /\ \A r \in BagToSet(tasks) : r.url # lastEvent.url

\* The second of the day a well-formed "HH:MM:SS" string names.
ParseClock(str) ==
    ((str[1] - 48) * 10 + (str[2] - 48)) * 3600
        + ((str[4] - 48) * 10 + (str[5] - 48)) * 60
        + (str[7] - 48) * 10 + (str[8] - 48)

\* Window w matches second-of-day t, as times of day.
TimeMatches(w, t) ==
    IF w.StartTime = << >> \/ w.EndTime = << >> THEN FALSE
    ELSE LET start == ParseClock(w.StartTime)
             end == ParseClock(w.EndTime)
         IN  IF start < end THEN start <= t /\ t <= end
             ELSE IF start > end THEN t >= start \/ t <= end
             ELSE FALSE

\* C9: every window the decision looked at matched iff, with start < end,
\* start <= t <= end, or, with start > end, t >= start or t <= end; a window
\* with an empty start or end, or with start = end, did not match.
C9_WindowMatching ==
    probe.fn = "processFeedUpdate"
        => \A i \in DOMAIN probe.out.eff.matchLog :
              probe.out.eff.matchLog[i] = TimeMatches(Schedules[i], now % 86400)

\* A window that wraps past midnight matched a time before its end, after a
\* window with an empty bound was passed over.
C9_Witness ==
    /\ probe.fn = "processFeedUpdate"
    /\ Len(probe.out.eff.matchLog) = 2
    /\ Schedules[1].EndTime = << >>
    /\ probe.out.eff.matchLog[2]
    /\ Schedules[2].StartTime = FormatClock(ClockOf(23, 0, 0))
    /\ Schedules[2].EndTime = FormatClock(ClockOf(8, 0, 0))
    /\ now = ClockOf(8, 0, 0)

\* The windows of the schedule list that match the current time of day.
MatchingWindows == { i \in DOMAIN Schedules : TimeMatches(Schedules[i], now % 86400) }

\* C10: the interval is base-refresh x (the source's refresh count if > 0,
\* else the window's default count) of the first matching window; with no
\* matching window it is 0 and the source is not dispatched; window
\* 08:00:00-23:00:00 with base 10, refresh count 3 and time 09:00:00 give 30.
C10_EffectiveInterval ==
    probe.fn = "processFeedUpdate"
        => LET rc == Sources[1].RefreshCount
               got == probe.out.eff.interval
           IN  /\ MatchingWindows = {} => got = 0 /\ ~probe.out.dispatch
               /\ MatchingWindows # {} =>
                    LET first == CHOOSE i \in MatchingWindows :
                                    \A j \in MatchingWindows : i <= j
                        w == Schedules[first]
                    IN  got = w.BaseRefresh * (IF rc > 0 THEN rc ELSE w.DefaultCount)
               /\ ( /\ Schedules # << >>
                    /\ Schedules[1] = Window(FormatClock(ClockOf(8, 0, 0)),
                                             FormatClock(ClockOf(23, 0, 0)), 10, 1)
                    /\ rc = 3 /\ now = ClockOf(9, 0, 0) ) => got = 30

\* The example 08:00:00-23:00:00 at 09:00:00, followed by a second window
\* that matches too.
C10_Witness ==
    /\ probe.fn = "processFeedUpdate"
    /\ Len(Schedules) = 2
    /\ Schedules[1] = Window(FormatClock(ClockOf(8, 0, 0)),
                             FormatClock(ClockOf(23, 0, 0)), 10, 1)
    /\ Schedules[2] = Window(FormatClock(ClockOf(8, 0, 0)),
                             FormatClock(ClockOf(23, 0, 0)), 7, 2)
    /\ Sources[1].RefreshCount = 3
    /\ now = ClockOf(9, 0, 0)
    /\ probe.out.eff.interval = 30
    /\ probe.out.dispatch

\* Item a stands before item b in the canonical order: the later timestamp
\* first, and of two equal timestamps the smaller index in the document.
Before(a, b) == a.pubDate > b.pubDate \/ (a.pubDate = b.pubDate /\ a.idx < b.idx)

Built == { r \in BagToSet(tasks) : r.pc \in { "classify", "merge", "publish" } }

\* The items of r stand in the order of the fetched document, with
\* timestamps that fall by a second per index from the time of the build.
InDocumentOrder(r) ==
    LET doc == CapItems(r.doc, Sources[r.url].MaxItems)
    IN  /\ Len(r.all) = Len(doc)
        /\ \A i \in DOMAIN r.all :
              /\ r.all[i].link = doc[i].link
              /\ r.all[i].idx = i - 1
              /\ r.all[i].pubDate = r.all[1].pubDate - (i - 1)
        /\ \A i, j \in DOMAIN r.all : i < j => r.all[i].pubDate > r.all[j].pubDate
        /\ r.all # << >> => r.all[1].pubDate >= r.asOf

\* C12: every update of a ranking-mode source that is not short-circuited
\* gives its items timestamps that strictly decrease with the index in the
\* fetched document, whatever the feed's and the cached timestamps are, and
\* the full list it sorts and publishes is in the order of that document.
C12_RankingKeepsDocumentOrder ==
    /\ [](\A r \in Built : Sources[r.url].RankingMode => InDocumentOrder(r))
    /\ [][ (lastEvent'.kind = "publish" /\ Sources[lastEvent'.url].RankingMode)
             => \E r \in Built :
                   /\ r.pc = "publish" /\ r.url = lastEvent'.url
                   /\ CopiesIn(r, tasks') < CopiesIn(r, tasks)
                   /\ DbMap'[r.url].AllItemLinks =
                         LinksOf(CapItems(r.doc, Sources[r.url].MaxItems)) ]_vars

\* A ranking-mode source whose snapshot lists link 2 before link 1 has sorted
\* a later document that lists link 1, the older by the feed's timestamps,
\* before link 2.
C12_Witness ==
    \E r \in Built :
        /\ Sources[r.url].RankingMode
        /\ r.pc = "merge" /\ r.had
        /\ LinksOf(r.all) = << 1, 2 >>
        /\ r.doc[1].ts < r.doc[2].ts
        /\ DbMap[r.url] # NoFeed
        /\ DbMap[r.url].AllItemLinks = << 2, 1 >>
        /\ LastStamp(DbMap[r.url].Items, 1, "pubDate") # NoTime

\* C13: in every update of a source that ignores the feed's timestamps and
\* is not in ranking mode, the timestamp reconciled for a link is the time of
\* the first update of the source that fetched the link.
C13_StickyTimestamps ==
    \A r \in Built :
        (Sources[r.url].IgnoreOriginalPubDate /\ ~Sources[r.url].RankingMode)
            => \A i \in DOMAIN r.all :
                  r.all[i].pubDate = hist.firstSeen[r.url][r.all[i].link]

\* The links of source u's snapshot and retained cache that no other
\* source's snapshot or retained cache holds.
SourceLinks(db, retained, u) == FeedLinks(db[u]) \cup RetainedLinks(retained[u])
OnlyFrom(db, retained, u) ==
    { l \in SourceLinks(db, retained, u) :
        \A v \in DOMAIN db \ { u } : l \notin SourceLinks(db, retained, v) }

\* C14: when a full sweep that began after a source was removed from the
\* configuration completes, no entry of the classification cache or of the
\* post-processing cache, and no read-state entry that is a day old or
\* older, remains for a link that only the removed source's snapshot or
\* retained cache holds.
C14_RemovedSourceSwept ==
    [][ lastEvent'.kind = "gcPostProcess" =>
          \A u \in hist.removed \ (DOMAIN Sources \cup gc.srcs) :
             \A l \in OnlyFrom(DbMap', ItemsCache', u) :
                /\ l \notin DOMAIN ClassifyCache'
                /\ l \notin PostProcessCache'
                /\ l \in DOMAIN ReadState' => now' - ReadState'[l] < GracePeriod ]_vars

\* C15: a step of garbage collection deletes a read-state entry only if no
\* snapshot and no retained cache holds its link and the entry is 86400
\* seconds old or older; an entry whose link is held, or that is younger,
\* survives the step.
ValidLink(db, retained, l) == \E u \in DOMAIN db : l \in SourceLinks(db, retained, u)
C15_ReadStateGrace ==
    [][ \A l \in DOMAIN ReadState \ DOMAIN ReadState' :
           /\ ~ValidLink(DbMap', ItemsCache', l)
           /\ now - ReadState[l] >= 86400 ]_vars

\* C16: a periodic sweep that began while fewer than 80% of the configured
\* sources (n >= 1 of them, k with a snapshot, k < 0.8 n) had a snapshot
\* deletes nothing from any cache.
WithSnapshot(srcs) == { u \in srcs : DbMap[u] # NoFeed }
C16_WarmCacheGate ==
    [][ ( /\ lastEvent'.kind \in { "gcClassify", "gcReadState", "gcPostProcess" }
          /\ Cardinality(gc.srcs) >= 1
          /\ 5 * Cardinality(WithSnapshot(gc.srcs)) < 4 * Cardinality(gc.srcs) )
        => UNCHANGED << ClassifyCache, ReadState, PostProcessCache, ItemsCache >> ]_vars

\* C17: the configuration diff reports a source of the new configuration as
\* affected exactly when its url is new or its settings differ from the old
\* ones in the item limit, the cache policy, the ignore-original-date flag,
\* the ranking flag, any field of the classification strategy or any field
\* of the post-process configuration; a change of name, icon or refresh
\* multiplier alone does not make it affected.
C17_AffectedIffContentChanged ==
    probe.fn = "collectAffectedUrls" =>
        \A u \in DOMAIN probe.new :
            u \in probe.affected <=>
                \/ u \notin DOMAIN probe.old
                \/ probe.old[u].MaxItems # probe.new[u].MaxItems
                \/ probe.old[u].CacheItems # probe.new[u].CacheItems
                \/ probe.old[u].IgnoreOriginalPubDate # probe.new[u].IgnoreOriginalPubDate
                \/ probe.old[u].RankingMode # probe.new[u].RankingMode
                \/ probe.old[u].Classify # probe.new[u].Classify
                \/ probe.old[u].PostProcessConfig # probe.new[u].PostProcessConfig

\* C18: a failed attempt to read the configuration changes neither the
\* configuration, nor the updates in progress, nor a snapshot, nor a cache,
\* nor the sweep; there are at most three attempts; and after the third
\* failure the reload is over, without the cleanups and forced updates of
\* a successful reload.
C18_FailedReloadAbandoned ==
    [][ lastEvent'.kind = "reloadFail" =>
          /\ UNCHANGED << Sources, tasks, DbMap, ItemsCache, ClassifyCache,
                          PostProcessCache, ReadState, gc, cleaners >>
          /\ lastEvent'.attempt <= 3
          /\ lastEvent'.attempt = 3 => reload'.pc = "idle" ]_vars
\* The third attempt of a reload has failed while a snapshot and a
\* classification were there to lose.
C18_Witness ==
    /\ lastEvent.kind = "reloadFail"
    /\ lastEvent.attempt = 3
    /\ \E u \in Urls : DbMap[u] # NoFeed
    /\ DOMAIN ClassifyCache # {}

\* C19: (a) a successful reload starts an update with force_reprocess for
\* every source of the new configuration that is new or whose content
\* settings (item limit, cache policy, date and ranking flags, the
\* classification strategy, the post-process configuration) changed; (b) that update runs on to a fetch; (c) no update with
\* force_reprocess takes the unchanged path: after a successful fetch it
\* ends by publishing a snapshot, even when it fetched the document that
\* the source's last completed update had fetched.
ContentChanged(old, new) ==
    { u \in DOMAIN new :
        \/ u \notin DOMAIN old
        \/ old[u].MaxItems # new[u].MaxItems
        \/ old[u].CacheItems # new[u].CacheItems
        \/ old[u].IgnoreOriginalPubDate # new[u].IgnoreOriginalPubDate
        \/ old[u].RankingMode # new[u].RankingMode
        \/ old[u].Classify # new[u].Classify
        \/ old[u].PostProcessConfig # new[u].PostProcessConfig }
C19_ForcedReprocess ==
    /\ [][ lastEvent'.kind = "reloadApply" =>
             \A u \in ContentChanged(reload.old, Sources) :
                \E r \in BagToSet(tasks') :
                   /\ r.url = u /\ r.force /\ r.pc = "acquire"
                   /\ CopiesIn(r, tasks') > CopiesIn(r, tasks) ]_vars
    /\ \A u \in Urls :
          (lastEvent.kind = "reloadApply" /\ u \in lastEvent.affected)
             ~> (/\ lastEvent.url = u
                 /\ \/ lastEvent.kind = "fetchFail" /\ lastEvent.by = "reload"
                    \/ lastEvent.kind = "fetchOk")
    /\ [][ /\ lastEvent'.kind = "unchanged" => ~lastEvent'.force
           /\ \A r \in BagToSet(tasks) :
                 (r.force /\ r.pc \in { "classify", "merge", "publish" }) =>
                    \/ r \in BagToSet(tasks')
                    \/ \E q \in BagToSet(tasks') :
                          q.url = r.url /\ q.force /\ q.pc \in { "merge", "publish" }
                    \/ (lastEvent'.kind = "publish" /\ lastEvent'.url = r.url
                          /\ lastEvent'.force /\ DbMap'[r.url] = NewFeed(r)) ]_vars

\* C20: with keyword filtering enabled (and no script filter), an item that
\* has no cache entry and whose title or description contains a keep
\* keyword, whatever the case of the letters, and whether or not it also
\* contains a filter keyword, is in the list ClassifyItems returns with the
\* category _keep, whatever the category whitelist and blacklist are, and
\* is not sent to the AI backend.
ContainsIgnoringCase(text, keyword) ==
    LET same(a, b) == a = b \/ { a, b } = { "k", "K" } \/ { a, b } = { "f", "F" }
    IN  \E i \in 0..(Len(text) - Len(keyword)) :
           \A j \in 1..Len(keyword) : same(text[i + j], keyword[j])
C20_KeepKeywordWins ==
        ( /\ probe.fn = "ClassifyItems"
          /\ probe.strategy.KeywordEnabled = "true"
          /\ probe.strategy.ScriptFilterEnabled # "true"
          /\ probe.item.link \notin DOMAIN probe.cache
          /\ \E n \in DOMAIN probe.strategy.KeepKeywords :
                \/ ContainsIgnoringCase(probe.item.title, probe.strategy.KeepKeywords[n])
                \/ ContainsIgnoringCase(probe.item.description,
                                        probe.strategy.KeepKeywords[n]) )
        => /\ \E i \in DOMAIN probe.out :
                 probe.out[i].link = probe.item.link /\ probe.out[i].category = "_keep"
           /\ probe.item.link \notin probe.asked


(***************************************************************************)
(* C23: the category stage lets an item through exactly as its category    *)
(* and the two lists say: _keep always; with a non-empty whitelist, the    *)
(* categories in it and nothing else (the blacklist is not looked at);     *)
(* else with a non-empty blacklist, every category not in it; with neither *)
(* list, everything.  The items that pass keep their relative order.  The  *)
(* same holds of the stage inside applyFiltersAndReturn for the items the  *)
(* keyword stage did not mark _filtered.                                   *)
(***************************************************************************)
PassesLists(it, strategy) ==
    LET whitelist == IF strategy = Nil THEN {} ELSE Range(strategy.CategoryWhitelist)
        blacklist == IF strategy = Nil THEN {} ELSE Range(strategy.CategoryBlacklist)
    IN  \/ it.category = "_keep"
        \/ it.category # "_keep" /\ whitelist # {} /\ it.category \in whitelist
        \/ it.category # "_keep" /\ whitelist = {} /\ blacklist # {}
              /\ it.category \notin blacklist
        \/ whitelist = {} /\ blacklist = {}

C23_CategoryAllowDeny ==
    probe.fn = "applyFiltersAndReturn" =>
        /\ probe.byCategory =
              SelectSeq(probe.items, LAMBDA it : PassesLists(it, probe.strategy))
        /\ probe.scriptIn =
              SelectSeq(probe.items, LAMBDA it : /\ it.category # "_filtered"
                                                 /\ PassesLists(it, probe.strategy))

\* Both lists are configured and name the same category; an unclassified
\* item and an item of that category stand in the list, and the latter
\* passes alone.
C23_Witness ==
    /\ probe.fn = "applyFiltersAndReturn"
    /\ probe.strategy # Nil
    /\ probe.strategy.CategoryWhitelist = << "A" >>
    /\ probe.strategy.CategoryBlacklist = << "A" >>
    /\ Len(probe.items) = 2
    /\ probe.items[1].category = ""
    /\ probe.items[2].category = "A"
    /\ probe.byCategory = << probe.items[2] >>

(***************************************************************************)
(* C24: the script stage fails open.  When the run of the script times     *)
(* out, exits with an error or writes what parses neither as an array nor  *)
(* as lines, applyFiltersAndReturn returns the list it gave to the script, *)
(* the same items in the same order; a list that was not empty comes back  *)
(* empty only from a run without error whose output holds no item.         *)
(***************************************************************************)
ScriptStageRan ==
    /\ probe.fn = "applyFiltersAndReturn"
    /\ probe.strategy # Nil
    /\ probe.strategy.ScriptFilterEnabled = "true"

C24_ScriptFailsOpen ==
    ScriptStageRan =>
        /\ ( \/ probe.script.err # "none"
             \/ probe.script.output = "garbage" ) => probe.out = probe.scriptIn
        /\ ( probe.scriptIn # << >> /\ probe.out = << >> ) =>
              /\ probe.script.err = "none"
              /\ \/ probe.script.output = "empty"
                 \/ /\ probe.script.output = "items"
                    /\ \A i \in DOMAIN probe.scriptIn :
                          probe.scriptIn[i].link \notin probe.script.prints

\* The script timed out over a list of two items, which came back whole.
C24_Witness ==
    /\ ScriptStageRan
    /\ probe.script.err = "timeout"
    /\ Len(probe.scriptIn) = 2
    /\ probe.out = probe.scriptIn


(***************************************************************************)
(* C21: an item whose index the response of its batch lacks keeps the      *)
(* empty category in the list returned and is counted as failed; its link  *)
(* gets no cache entry from it (the entry is as before the run unless an   *)
(* answered item has the same link); it is in the output when no category  *)
(* whitelist is configured and no unclassified item is when one is; the    *)
(* answered items carry the categories of their responses.                 *)
(***************************************************************************)
SameEntry(cacheA, cacheB, l) ==
    /\ l \in DOMAIN cacheA <=> l \in DOMAIN cacheB
    /\ l \in DOMAIN cacheA => cacheA[l] = cacheB[l]

C21_MissingIndices ==
    probe.fn = "returned" =>
        /\ probe.failedItems = Cardinality(probe.missing) + Cardinality(probe.lost)
        /\ \A i \in probe.missing :
              /\ probe.finalItems[i].category = ""
              /\ ( \A j \in DOMAIN probe.answers :
                      probe.items[j].link # probe.items[i].link )
                   => SameEntry(ClassifyCache, probe.cache, probe.items[i].link)
              /\ probe.strategy.CategoryWhitelist = << >> =>
                   \E k \in DOMAIN probe.out : probe.out[k] = probe.finalItems[i]
              /\ probe.strategy.CategoryWhitelist # << >> =>
                   \A k \in DOMAIN probe.out : probe.out[k].category # ""
        /\ \A j \in DOMAIN probe.answers :
              probe.finalItems[j].category = probe.answers[j]

\* A batch of two items was answered for one of them only; the other item
\* is returned without category and its link is not in the cache.
C21_Witness ==
    /\ probe.fn = "returned"
    /\ probe.strategy.CategoryWhitelist = << >>
    /\ \E b \in DOMAIN probe.batches :
       \E i, j \in Range(probe.batches[b].tasks) :
          /\ i \in probe.missing
          /\ j \in DOMAIN probe.answers
          /\ probe.items[i].link # probe.items[j].link
          /\ probe.items[i].link \notin DOMAIN ClassifyCache
          /\ \E k \in DOMAIN probe.out :
                probe.out[k].link = probe.items[i].link /\ probe.out[k].category = ""


(***************************************************************************)
(* C22: a batch is attempted at most maxRetries times and again only after *)
(* a failed attempt; a batch all of whose attempts failed leaves its items *)
(* without category, counted as failed and (without a category whitelist)  *)
(* in the output, and only its items: every other pending item is either   *)
(* answered, and then carries and has cached the category of its response, *)
(* or missing from its response.  The run comes to its return: no batch    *)
(* brings the process down.                                                *)
(***************************************************************************)
AttemptsInBounds ==
    probe.fn = "ClassifyItems" =>
        \A b \in DOMAIN probe.batches :
            LET batch == probe.batches[b]
            IN  /\ batch.tried <= probe.maxRetries
                /\ batch.pc = "try" => batch.tried = batch.failed
                /\ batch.pc = "answered" => batch.tried = batch.failed + 1
                /\ batch.pc = "failed" => /\ batch.tried = batch.failed
                                          /\ batch.tried = probe.maxRetries

OnlyFailedBatchesLost ==
    probe.fn = "returned" =>
        /\ \A b \in DOMAIN probe.batches :
              \/ Range(probe.batches[b].tasks) \subseteq probe.lost
              \/ Range(probe.batches[b].tasks) \cap probe.lost = {}
        /\ probe.failedItems = Cardinality(probe.missing) + Cardinality(probe.lost)
        /\ \A i \in probe.lost :
              /\ probe.finalItems[i].category = ""
              /\ probe.strategy.CategoryWhitelist = << >> =>
                   \E k \in DOMAIN probe.out : probe.out[k] = probe.finalItems[i]
        /\ \A b \in DOMAIN probe.batches : \A j \in Range(probe.batches[b].tasks) :
              j \notin probe.lost =>
                  \/ j \in probe.missing
                  \/ /\ j \in DOMAIN probe.answers
                     /\ probe.finalItems[j].category = probe.answers[j]
                     /\ probe.items[j].link \in DOMAIN ClassifyCache
                     /\ ClassifyCache[probe.items[j].link] \in
                          { probe.answers[k] : k \in { m \in DOMAIN probe.answers :
                              probe.items[m].link = probe.items[j].link } }

C22_FailPartial ==
    /\ AttemptsInBounds
    /\ OnlyFailedBatchesLost
    /\ probe.fn # "panic"


(***************************************************************************)
(* C29: the cache lookup comes first.  An item whose link had an entry     *)
(* with a category when ClassifyItems started carries that category, was   *)
(* not handed to the keyword evaluation and is in no request to the AI     *)
(* backend; every item in a request had no such entry and, with keyword    *)
(* filtering enabled, no keep keyword in its title.                        *)
(***************************************************************************)
HadCategory(i) ==
    /\ probe.items[i].link \in DOMAIN probe.cache
    /\ probe.cache[probe.items[i].link] # ""

C29_CacheLookupFirst ==
    probe.fn \in { "ClassifyItems", "returned", "panic" } =>
        \A i \in DOMAIN probe.items :
            /\ HadCategory(i) =>
                  /\ probe.finalItems[i].category = probe.cache[probe.items[i].link]
                  /\ i \notin probe.evaluated
                  /\ i \notin probe.requested
            /\ i \in probe.requested =>
                  /\ ~HadCategory(i)
                  /\ probe.strategy.KeywordEnabled = "true" =>
                        probe.items[i].title # << "k" >>


(***************************************************************************)
(* C30: at every point of a run of ClassifyItems the classification cache  *)
(* is what it was when the run started, but for the links of the items     *)
(* whose responses were applied: such a link holds the category of an      *)
(* applied response for an item with that link.  Items resolved from the   *)
(* cache or by keywords, items of failed batches and items missing from    *)
(* their responses change no entry, in whatever order the batches finish.  *)
(***************************************************************************)
C30_CacheGainsAnswersOnly ==
    probe.fn \in { "ClassifyItems", "returned", "panic" } =>
        \A l \in Links :
            LET givers == { j \in DOMAIN probe.answers : probe.items[j].link = l }
            IN  IF givers = {}
                THEN SameEntry(ClassifyCache, probe.cache, l)
                ELSE /\ l \in DOMAIN ClassifyCache
                     /\ ClassifyCache[l] \in { probe.answers[j] : j \in givers }

\* Two batches of one item each: the batch of the first link failed, the
\* batch of the second was answered; the cache kept the entry of the first
\* link and gained one for the second.
C30_Witness ==
    /\ probe.fn = "returned"
    /\ Len(probe.batches) = 2
    /\ \E i \in probe.lost : probe.items[i].link = 1
    /\ \E j \in DOMAIN probe.answers : probe.items[j].link = 2
    /\ DOMAIN ClassifyCache = { 1, 2 }
    /\ ClassifyCache[1] = probe.cache[1]
    /\ ClassifyCache[2] \in Categories


\* No update, no cleanup and no save is under way and nothing is dirty.
Quiescent ==
    /\ tasks = EmptyBag
    /\ cleaners = EmptyBag
    /\ ~dataChanged
    /\ saver.pc = "idle"

\* Every entry of the caches is in the store, with its value.
AddsMirrored ==
    Quiescent =>
        /\ \A l \in DOMAIN ClassifyCache :
              l \in DOMAIN store.classify /\ store.classify[l] = ClassifyCache[l]
        /\ PostProcessCache \subseteq store.postProcess

\* C25: once the system is quiescent the durable store holds exactly the
\* keys of the in-memory classification and post-process caches, with the
\* values of the entries: every addition and every deletion has been
\* followed by its put or delete.
C25_DurableMirroring ==
    Quiescent =>
        /\ store.classify = ClassifyCache
        /\ store.postProcess = PostProcessCache


\* C26: in no reachable state does a task hold a shared-state lock while it
\* performs a blocking call: whenever the saving loop is inside a call of
\* the durable store it holds no cache lock.
C26_NoLockAcrossBlockingCall == saver.call # "none" => saver.held = {}


\* The snapshot's items, full link and title lists and filtered count.
SameContent(a, b) ==
    /\ a.Items = b.Items
    /\ a.AllItemLinks = b.AllItemLinks
    /\ a.AllItemTitles = b.AllItemTitles
    /\ a.FilteredCount = b.FilteredCount

\* C28: an update returns on the unchanged path only when force is not set
\* and the capped fetched links and titles equal the snapshot's full lists
\* position by position; the return leaves the snapshot's items, full lists
\* and filtered count, every other snapshot, the retained-items cache and
\* the classification cache unchanged, replaces the cold-start placeholder
\* of "last updated" by the time of the update and never changes a real
\* "last updated" value.
C28_UnchangedFrame ==
    [][ lastEvent'.kind = "unchanged" =>
          LET u == lastEvent'.url
          IN  /\ ~lastEvent'.force
              /\ DbMap[u] # NoFeed
              /\ ~IsChanged(DbMap[u], CapItems(hist'.lastOk[u], SourceOf(u).MaxItems))
              /\ ItemsCache' = ItemsCache
              /\ ClassifyCache' = ClassifyCache
              /\ \A v \in Urls \ { u } : DbMap'[v] = DbMap[v]
              /\ DbMap'[u] # NoFeed
              /\ SameContent(DbMap'[u], DbMap[u])
              /\ IF DbMap[u].lastupdate = Placeholder
                 THEN DbMap'[u].lastupdate \in TimeZero..now
                 ELSE DbMap'[u].lastupdate = DbMap[u].lastupdate ]_vars

\* An update has returned on the unchanged path after the clock moved on:
\* the snapshot keeps the earlier, real "last updated" value and the
\* classification cache its entries.
C28_Witness ==
    /\ lastEvent.kind = "unchanged"
    /\ ~lastEvent.replaced
    /\ DbMap[lastEvent.url].lastupdate \in TimeZero..(now - 1)
    /\ ClassifyCache # EmptyMap

\* An update has returned on the unchanged path over a snapshot restored at
\* start-up: the placeholder has given way to the time of the update.
PlaceholderReplaced ==
    /\ lastEvent.kind = "unchanged"
    /\ lastEvent.replaced
    /\ DbMap[lastEvent.url].lastupdate \in TimeZero..now
    /\ Len(DbMap[lastEvent.url].Items) = 2


\* Two updates of the first source have passed the semaphore and neither has
\* returned.
TwoUpdatesInProgress ==
    /\ BagCardinality(tasks) = 2
    /\ \A r \in BagToSet(tasks) : r.url = 1 /\ r.pc # "acquire"

\* C27: updates of one source are not mutually exclusive, and the snapshot
\* that remains published is the one of the update that publishes last:
\* every publish puts the full lists of the document its own update fetched
\* into the snapshot of its source, whatever snapshot was there, and touches
\* no other snapshot.
C27_LastPublisherWins ==
    [][ lastEvent'.kind = "publish" =>
          LET u == lastEvent'.url
              doc == CapItems(hist'.lastOk[u], SourceOf(u).MaxItems)
          IN  /\ DbMap'[u] # NoFeed
              /\ DbMap'[u].AllItemLinks = LinksOf(doc)
              /\ DbMap'[u].AllItemTitles = TitlesOf(doc)
              /\ \A v \in Urls \ { u } : DbMap'[v] = DbMap[v] ]_vars

\* An update that fetched the first document (served at the start only) has
\* published over the snapshot of an update that fetched the second
\* document (served later): the two ran at the same time and the earlier
\* fetch is what remains published.
C27_Witness ==
    /\ lastEvent.kind = "publish"
    /\ lastEvent.url = 1
    /\ lastEvent.over = << 2 >>
    /\ DbMap[1].AllItemLinks = << 1 >>
    /\ hist.overlap[1]


\* The indices ClassifyItems left pending after the cache and the keywords.
PendingOf(run) ==
    LET isPending(i) == FirstPass(run.items[i], run.cache, run.strategy).pending
    IN  IndicesWhere(run.items, isPending)

RECURSIVE Concat(_)
Concat(seqs) == IF Len(seqs) = 0 THEN << >> ELSE Head(seqs) \o Concat(Tail(seqs))

\* The batches that hold the channel sem: started and not yet returned.
InFlight(run) ==
    { b \in DOMAIN run.batches : run.batches[b].pc \notin { "wait", "done" } }

\* C31: in a run that reaches the AI stage the pending items are cut, in
\* order, into batches of batchSize items (the last one may be shorter, none
\* is empty), so that every pending item is in exactly one batch; never more
\* than concurrency batches are in flight; and the run has returned only
\* when every batch is done.
C31_Batching ==
    (probe.fn \in { "ClassifyItems", "returned", "panic" } /\ Len(probe.categories) > 0) =>
        LET all == [ b \in DOMAIN probe.batches |-> probe.batches[b].tasks ]
        IN  /\ Concat(all) = PendingOf(probe)
            /\ \A b \in DOMAIN all :
                  /\ Len(all[b]) >= 1
                  /\ Len(all[b]) <= probe.batchSize
                  /\ b < Len(all) => Len(all[b]) = probe.batchSize
            /\ Cardinality(InFlight(probe)) <= probe.concurrency
            /\ probe.fn = "returned" =>
                  \A b \in DOMAIN probe.batches : probe.batches[b].pc = "done"

\* Three pending items in batches of one: two batches are in flight, the
\* third one waits for the channel.
C31_Witness ==
    /\ probe.fn = "ClassifyItems"
    /\ Len(probe.batches) = 3
    /\ probe.batchSize = 1
    /\ Cardinality(InFlight(probe)) = probe.concurrency
    /\ probe.batches[3].pc = "wait"


\* A reload starts only 500 ms after the last notification of a change.
ReloadAfterQuiet == lastEvent.kind = "reloadFuncStart" => probe.since >= DebounceInterval

\* A notification of a change is followed by one reload: none is owed any
\* more once 500 ms have passed (the reload is starting or has started), and
\* no second one starts.
OneReloadPerBurst ==
    /\ (probe.owed /\ probe.since >= DebounceInterval) => TimerDue
    /\ probe.started <= 1

\* No two goroutines run reloadFunc at once.
NoConcurrentReloads == probe.running <= 1

\* Notifications that report nothing but Chmod cause no reload: the timer
\* is armed only while a reload is owed to a notification of a change.
ChmodOnlyIgnored == probe.timer # TimerOff => probe.owed

\* C32: a reload starts only when 500 ms have passed with no write, create
\* or rename notification since the most recent one, a burst of such
\* notifications causes exactly one reload, no two reloads run at once, and
\* notifications of chmod alone cause none.
C32_Debounce ==
    /\ ReloadAfterQuiet
    /\ OneReloadPerBurst
    /\ NoConcurrentReloads
    /\ ChmodOnlyIgnored


\* C33: every item of the rebuilt filtered list has a link that the
\* pipeline returned, whatever the pipeline returned.
C33_OnlyPassedLinks ==
    probe.fn = "rebuild" =>
        \A i \in DOMAIN probe.filteredItems :
            probe.filteredItems[i].link \in probe.passedLinks

\* The same for a pipeline that returns only items of its input.
OnlyPassedLinksOfInput ==
    (probe.fn = "rebuild" /\ probe.passedLinks \subseteq Range(LinksOf(probe.allItems))) =>
        /\ \A i \in DOMAIN probe.filteredItems :
              probe.filteredItems[i].link \in probe.passedLinks
        /\ probe.filteredItems = SelectPassed(probe.sorted, probe.passedLinks)


\* The item of the run has no cache entry, keyword filtering is enabled and
\* the keywords decide against it: it holds no keep keyword and either the
\* whitelist mode is on or it holds a filter keyword.
KeywordsReject ==
    LET holds(keywords) ==
            \E n \in DOMAIN keywords :
                \/ ContainsIgnoringCase(probe.item.title, keywords[n])
                \/ ContainsIgnoringCase(probe.item.description, keywords[n])
    IN  /\ probe.fn = "ClassifyItems"
        /\ probe.strategy.KeywordEnabled = "true"
        /\ probe.item.link \notin DOMAIN probe.cache
        /\ ~holds(probe.strategy.KeepKeywords)
        /\ \/ probe.strategy.WhitelistMode = "true"
           \/ holds(probe.strategy.FilterKeywords)

\* C34: with keyword filtering enabled, an uncached item that the keywords
\* reject is absent from the list ClassifyItems returns, whatever
\* categories are on offer and whether or not the AI backend is used.
C34_FilterKeywordFilters ==
    KeywordsReject => \A i \in DOMAIN probe.out : probe.out[i].link # probe.item.link

\* The same when at least one category is on offer.
FilterKeywordFiltersWithCategories ==
    (KeywordsReject /\ Len(probe.categories) > 0) =>
        \A i \in DOMAIN probe.out : probe.out[i].link # probe.item.link

\* A rejected item was dropped in a run without the AI backend.
RejectedWithoutAI ==
    KeywordsReject /\ ~probe.useAI /\ Len(probe.categories) > 0 /\ probe.out = << >>


\* C35: the retained items read back at start-up are, in the same order,
\* the items that were stored, with the same title, link, original link,
\* publish time, fetch time and category.
C35_RetainedRoundTrip ==
    probe.fn = "loadItemsCache" => probe.loaded = probe.stored

\* The same for the four fields the rows hold.
StoredFieldsRoundTrip ==
    probe.fn = "loadItemsCache" =>
        /\ Len(probe.loaded) = Len(probe.stored)
        /\ \A i \in DOMAIN probe.stored :
              /\ probe.loaded[i].title = probe.stored[i].title
              /\ probe.loaded[i].link = probe.stored[i].link
              /\ probe.loaded[i].originalLink = probe.stored[i].originalLink
              /\ probe.loaded[i].pubDate = probe.stored[i].pubDate

\* The update of a source has published: the retained cache and the
\* snapshot are the ones it left.
UpdateDone == probe.fn = "UpdateFeedWithOptions" /\ lastEvent.kind = "publish"

\* C36: with the retained-cache policy 0 (auto), after an update the
\* retained cache of the source contains exactly the links of the filtered
\* list the update produced, whatever that list is (empty, with duplicate
\* or empty links), and no link of an earlier update.
C36_AutoRetention ==
    (UpdateDone /\ SourceOf(probe.url).CacheItems = 0)
        => RetainedLinks(ItemsCache[probe.url]) = Range(LinksOf(probe.passed))

\* The filtered list has distinct, non-empty links and at least one item.
CleanList(items) ==
    /\ items # << >>
    /\ NoDupLinks(items)
    /\ \A i \in DOMAIN items : items[i].link # 0

\* With the policy 0 and a non-empty filtered list of distinct non-empty
\* links, the retained cache holds exactly the links of that list.
AutoRetentionOfCleanLists ==
    (UpdateDone /\ SourceOf(probe.url).CacheItems = 0 /\ CleanList(probe.passed))
        => /\ ItemsCache[probe.url] # NoCache
           /\ LinksOf(ItemsCache[probe.url]) = LinksOf(probe.passed)

AutoCleanListRetained ==
    /\ UpdateDone /\ SourceOf(probe.url).CacheItems = 0 /\ CleanList(probe.passed)
    /\ probe.cached # NoCache
    /\ Range(LinksOf(probe.cached)) \ Range(LinksOf(probe.passed)) # {}

\* C37: the filtered count of the published snapshot is not negative and
\* is the number of capped fetched items that did not pass the pipeline,
\* under every retained-cache policy and however many retained items the
\* merge backfilled.
C37_FilteredCount ==
    UpdateDone =>
        /\ DbMap[probe.url].FilteredCount >= 0
        /\ DbMap[probe.url].FilteredCount = Len(probe.all) - Len(probe.passed)

\* When the merge adds no retained item and drops no new one, the count is
\* the number of items that did not pass.
FilteredCountWithoutBackfill ==
    (UpdateDone /\ Len(DbMap[probe.url].Items) = Len(probe.passed))
        => /\ DbMap[probe.url].FilteredCount >= 0
           /\ DbMap[probe.url].FilteredCount = Len(probe.all) - Len(probe.passed)

BackfilledSnapshot ==
    UpdateDone /\ Len(DbMap[probe.url].Items) > Len(probe.passed)

\* Under the policy 0 the retained cache keeps a link of an earlier update
\* that the filtered list of this update does not have.
StaleLinkRetained ==
    /\ UpdateDone /\ SourceOf(probe.url).CacheItems = 0
    /\ \A i \in DOMAIN probe.passed : probe.passed[i].link # 0
    /\ RetainedLinks(ItemsCache[probe.url]) \ Range(LinksOf(probe.passed)) # {}

\* The same after an update whose filtered list is empty.
StaleAfterEmptyList ==
    StaleLinkRetained /\ probe.passed = << >>

\* A published snapshot with a negative filtered count.
NegativeFilteredCount ==
    UpdateDone /\ DbMap[probe.url].FilteredCount < 0

\* The output of the run in probe when the keep and filter keyword lists
\* are replaced and nothing else is.
OutputWithKeywords(keepKeywords, filterKeywords) ==
    ClassifyItemsBy(<< probe.item >>,
                    [ probe.strategy EXCEPT !.KeepKeywords = keepKeywords,
                                            !.FilterKeywords = filterKeywords ],
                    probe.categories, probe.cache, probe.useAI,
                    [ l \in Links |-> probe.answer ], probe.script).out

KeywordsOff ==
    /\ probe.fn = "ClassifyItems"
    /\ probe.strategy.KeywordEnabled # "true"
    /\ probe.strategy.WhitelistMode # "true"

SameWhateverKeywords ==
    \A keepKeywords \in { << >>, << << "k" >> >> },
       filterKeywords \in { << >>, << << "F" >> >> } :
        OutputWithKeywords(keepKeywords, filterKeywords) = probe.out

\* C38: for a source with keyword filtering disabled and whitelist mode
\* off, runs that differ only in the keep and filter keyword lists give the
\* same output with the same categories, with AI enabled and without it.
C38_DisabledKeywordsNoEffect == KeywordsOff => SameWhateverKeywords

\* With AI enabled the disabled keyword lists have no effect.
DisabledKeywordsNoEffectWithAI ==
    (KeywordsOff /\ probe.useAI) => SameWhateverKeywords

\* A run with keywords disabled, AI enabled, categories on offer and a
\* title that a keyword of another run's list matches.
KeywordsOffTitleMatches ==
    /\ KeywordsOff /\ probe.useAI /\ Len(probe.categories) > 0
    /\ ~CacheHit(probe.cache, probe.item.link)
    /\ containsKeyword(probe.item.title, << "F" >>)
    /\ probe.strategy.FilterKeywords = << << "F" >> >>

\* Keywords disabled, AI not enabled, the script filter enabled: the
\* filter keyword list decides the category.
DisabledKeywordDecides ==
    /\ KeywordsOff /\ ~probe.useAI
    /\ probe.strategy.ScriptFilterEnabled = "true"
    /\ probe.out = << >>
    /\ OutputWithKeywords(<< >>, << >>) # << >>

\* Every batch of the run was submitted to the backend at least once, and
\* the run did not end in a panic.
BatchesSubmitted ==
    /\ probe.fn # "panic"
    /\ probe.fn = "returned" =>
          \A b \in DOMAIN probe.batches :
              Range(probe.batches[b].tasks) \subseteq probe.requested

\* C39: for every configured retry count, 0 and negative values included,
\* each AI batch is submitted to the backend at least once and the
\* pipeline returns its result list normally; no batch is treated as
\* answered without a request.
C39_EveryBatchSubmitted == BatchesSubmitted

\* With a retry count that is not negative every batch is submitted and
\* the run returns.
SubmittedWhenRetriesNotNegative ==
    (probe.fn \in { "ClassifyItems", "returned", "panic" } /\ probe.maxRetries > 0)
        => BatchesSubmitted

ReturnedAfterRequests ==
    /\ probe.fn = "returned" /\ probe.maxRetries > 0
    /\ Len(probe.batches) > 1
    /\ probe.requested # {}

PanicWithoutRequest ==
    probe.fn = "panic" /\ probe.maxRetries = 0 /\ probe.requested = {}

\* Every goroutine started has written.
AllWritten ==
    /\ probe.fn = "go"
    /\ \A g \in DOMAIN probe.goroutines : probe.goroutines[g].done

\* The tables hold what the maps in memory hold.
StoreAgrees ==
    /\ probe.read_state = ReadState
    /\ probe.items_cache = IF ItemsCache[1] = NoCache THEN << >>
                           ELSE ItemsCacheEntries(ItemsCache[1])

\* C40: asynchronous durable writes for one key take effect in the order
\* of the mutations in memory: once every pending write has completed the
\* store agrees with the map in memory for that key (no entry after
\* MarkRead then MarkUnread of a link, the later list after two writes of
\* the retained cache of a source).
C40_WritesInOrder == AllWritten => StoreAgrees

\* When no goroutine was started while another one for the same key had
\* not written yet, the store agrees once every write has completed.
AgreesWithoutOverlap == (AllWritten /\ ~probe.overlap) => StoreAgrees

WrittenOneAfterTheOther ==
    /\ AllWritten /\ ~probe.overlap
    /\ Len(probe.goroutines) = MaxCalls
    /\ probe.goroutines[1].key = probe.goroutines[2].key

\* MarkRead(link), MarkUnread(link), both writes done, and the table
\* read_state has the link.
ReadAfterUnread ==
    /\ AllWritten
    /\ Len(probe.goroutines) = 2
    /\ probe.goroutines[1].op = "DBSaveReadState"
    /\ probe.goroutines[2].op = "DBDeleteReadState"
    /\ probe.goroutines[1].key = probe.goroutines[2].key
    /\ probe.goroutines[1].key[2] \in DOMAIN probe.read_state
    /\ probe.goroutines[1].key[2] \notin DOMAIN ReadState

\* Two retained-cache writes of the source, both done, and the table has
\* the earlier list.
EarlierListStored ==
    /\ AllWritten
    /\ Len(probe.goroutines) = 2
    /\ probe.goroutines[1].op = "DBSaveItemsCache"
    /\ probe.goroutines[2].op = "DBSaveItemsCache"
    /\ probe.items_cache = probe.goroutines[1].entries
    /\ probe.items_cache # probe.goroutines[2].entries

=============================================================================
